---------------------------- MODULE Spec2Model ----------------------------
(***************************************************************************)
(* A model of the SatLink link-budget engine (satellite_new.Satellite,     *)
(* models.satellite_components, models.simple_reception).                  *)
(*                                                                         *)
(* Numbers.  The program computes in IEEE doubles; the model computes in   *)
(* fixed point:                                                            *)
(*   - every dB quantity is an integer number of tenths of a dB;           *)
(*   - every temperature is an integer number of kelvin;                   *)
(*   - every probability (percent of time) is an integer number of         *)
(*     1e-7 percent, so 0.001 is 10000 and 50 is 500000000;                *)
(*   - 10^(x/10) and 10*log10(x) are computed from a ten-entry table of    *)
(*     10^(k/10) with linear interpolation (DbToLin, DbOfInt).             *)
(* An optional value (Python None or a value) is a sequence of length 0    *)
(* or 1.                                                                   *)
(***************************************************************************)
EXTENDS Integers, Sequences, FiniteSets, TLC

None == <<>>
Some(v) == <<v>>
Val(o) == o[1]

Abs(x) == IF x < 0 THEN -x ELSE x

\* Integer division rounding toward zero, as a float result cut to the grid.
Quot(a, b) == IF a >= 0 THEN a \div b ELSE -((-a) \div b)

RECURSIVE Pow10(_)
Pow10(k) == IF k <= 0 THEN 1 ELSE 10 * Pow10(k - 1)

RECURSIVE Digits(_)
Digits(n) == IF n < 10 THEN 1 ELSE 1 + Digits(n \div 10)

\* 10^(k/10) * 1000 for k = 0..10.
Pow10Tab == <<1000, 1259, 1585, 1995, 2512, 3162, 3981, 5012, 6310, 7943, 10000>>

\* 1000 * 10^(d/100) for d tenths of a dB (np: 10 ** (x / 10)).
DbToLin(d) ==
    LET a == Abs(d)
        k == (a % 100) \div 10
        f == a % 10
        m == Pow10Tab[k + 1] + ((Pow10Tab[k + 2] - Pow10Tab[k + 1]) * f) \div 10
        v == Pow10(a \div 100) * m
    IN  IF d >= 0 THEN v ELSE 1000000 \div v

\* 100 * log10(n) for an integer n >= 1, i.e. 10*log10(n) in tenths of a dB.
DbOfInt(n) ==
    LET dg == Digits(n)
        m  == IF dg <= 4 THEN n * Pow10(4 - dg) ELSE n \div Pow10(dg - 4)
        k  == CHOOSE j \in 1..10 : Pow10Tab[j] <= m /\ m < Pow10Tab[j + 1]
        f  == ((m - Pow10Tab[k]) * 10) \div (Pow10Tab[k + 1] - Pow10Tab[k])
    IN  (dg - 1) * 100 + (k - 1) * 10 + f

\* 10*log10(x) in tenths of a dB for x given as 1000*x (np.log10 of a positive
\* float).
LinToDb(x) == DbOfInt(x) - 300

\* The float infinity that np.log10(0) and arithmetic on it produce.
Inf == 2000000000


-----------------------------------------------------------------------------
(* Probabilities, in units of 1e-7 percent.                                *)

PUnit == 10000000
\* p = 0.001, the default of get_link_attenuation and the value it forces
\* while the session has no cached probability.
P001 == 10000

-----------------------------------------------------------------------------
(* Components: models/satellite_components.py                              *)

\* Transponder(freq, eirp_max, b_transp, back_off, contorno); a bandwidth is
\* optional (None) and may be 0.
Transponder(freq, eirp_max, b_transp, back_off, contorno) ==
    [freq |-> freq, eirp_max |-> eirp_max, b_transp |-> b_transp,
     back_off |-> back_off, contorno |-> contorno]

\* Carrier(modulation, roll_off, fec, b_util): the branch of __init__ taken
\* when modulation is given; the derived values start unset.
Carrier(modulation, roll_off, fec, b_util) ==
    [modulation |-> modulation, fec |-> fec, roll_off |-> roll_off,
     b_util |-> b_util, symbol_rate |-> None, bitrate |-> None,
     snr_threshold |-> None]

\* The bandwidth calculate_eirp substitutes for a zero or unset bandwidth.
DefaultBandwidth == 36

\* calculate_eirp(transponder, carrier): writes the default into the
\* component objects it was given, then
\* eirp_max - back_off - contorno + 10*log10(b_util / b_transp).
calculate_eirp(tp, ca) ==
    LET tp1 == IF tp.b_transp \in {None, Some(0)}
               THEN [tp EXCEPT !.b_transp = Some(DefaultBandwidth)] ELSE tp
        ca1 == IF ca.b_util \in {None, Some(0)}
               THEN [ca EXCEPT !.b_util = Some(DefaultBandwidth)] ELSE ca
    IN  [tp |-> tp1, ca |-> ca1,
         eirp |-> tp1.eirp_max - tp1.back_off - tp1.contorno
                  + (DbOfInt(Val(ca1.b_util)) - DbOfInt(Val(tp1.b_transp)))]

\* models/Modulation_dB.csv: rows with the columns Modcod, Modulation, FEC,
\* Inforate efficiency bps_Hz (in hundredths) and C_over_N (in tenths of a
\* dB), in the order of the file.
ModulationRows ==
    << [modcod |-> "QPSK 90/180", modulation |-> "QPSK", fec |-> "90/180",
        inforate |-> 99, c_over_n |-> 10],
       [modcod |-> "QPSK 135/180", modulation |-> "QPSK", fec |-> "135/180",
        inforate |-> 149, c_over_n |-> 40],
       [modcod |-> "8PSK 120/180", modulation |-> "8PSK", fec |-> "120/180",
        inforate |-> 198, c_over_n |-> 98],
       [modcod |-> "8PSK 2/3-L", modulation |-> "8PSK", fec |-> "2/3-L",
        inforate |-> 190, c_over_n |-> 90],
       [modcod |-> "16APSK 135/180", modulation |-> "16APSK",
        fec |-> "135/180", inforate |-> 297, c_over_n |-> 102] >>
ModulationTable == {ModulationRows[k] : k \in DOMAIN ModulationRows}

\* Carrier.get_snr_threshold: cached value, else ValueError for an empty
\* modulation or FEC or an unknown pair, else the table's C_over_N (cached).
CarrierGetSnrThreshold(ca) ==
    IF ca.snr_threshold # None
    THEN [ca |-> ca, ret |-> ca.snr_threshold, err |-> ""]
    ELSE IF ca.modulation = "" \/ ca.fec = ""
    THEN [ca |-> ca, ret |-> None, err |-> "ValueError"]
    ELSE LET line == {r \in ModulationTable :
                        r.modulation = ca.modulation /\ r.fec = ca.fec}
         IN  IF line = {}
             THEN [ca |-> ca, ret |-> None, err |-> "ValueError"]
             ELSE LET v == (CHOOSE r \in line : TRUE).c_over_n
                  IN  [ca |-> [ca EXCEPT !.snr_threshold = Some(v)],
                       ret |-> Some(v), err |-> ""]

\* Carrier.get_bitrate: cached value, else ValueError for an empty
\* modulation or FEC or an unknown pair, else b_util times the table's
\* information rate (in units of 10 kbit/s; cached).
CarrierGetBitrate(ca) ==
    IF ca.bitrate # None
    THEN [ca |-> ca, ret |-> ca.bitrate, err |-> ""]
    ELSE IF ca.modulation = "" \/ ca.fec = ""
    THEN [ca |-> ca, ret |-> None, err |-> "ValueError"]
    ELSE LET line == {r \in ModulationTable :
                        r.modulation = ca.modulation /\ r.fec = ca.fec}
         IN  IF line = {}
             THEN [ca |-> ca, ret |-> None, err |-> "ValueError"]
             ELSE LET v == Val(ca.b_util) * (CHOOSE r \in line : TRUE).inforate
                  IN  [ca |-> [ca EXCEPT !.bitrate = Some(v)],
                       ret |-> Some(v), err |-> ""]

\* fec.split('/') with int() of the two parts: <<num, den>> for a label
\* "num/den" of two integers, <<>> for a label without '/' or with a part
\* that is no integer.
FecSplit(fec) ==
    CASE fec = "1/2" -> <<1, 2>>
      [] fec = "2/3" -> <<2, 3>>
      [] fec = "3/4" -> <<3, 4>>
      [] fec = "1/8" -> <<1, 8>>
      [] fec = "2/0" -> <<2, 0>>
      [] fec = "90/180" -> <<90, 180>>
      [] fec = "120/180" -> <<120, 180>>
      [] fec = "135/180" -> <<135, 180>>
      [] OTHER -> <<>>

\* int(round(a / b)): Python rounds a half to the even neighbour.
RoundHalfEven(a, b) ==
    IF 2 * (a % b) < b THEN a \div b
    ELSE IF 2 * (a % b) > b THEN a \div b + 1
    ELSE IF (a \div b) % 2 = 0 THEN a \div b
    ELSE a \div b + 1

\* fec_scaled of get_modulation_params: f"{round(num / den * 180)}/180" for
\* a label num/den with den # 0, else the label itself.
FecScaled(fec) ==
    LET nums == FecSplit(fec)
    IN  IF nums = <<>> \/ nums[2] = 0 THEN fec
        ELSE ToString(RoundHalfEven(nums[1] * 180, nums[2])) \o "/180"

\* The label of a MODCOD with the given parts, and str(modcod).split() of it.
ModcodLabel(modulation, fec) ==
    IF fec = "" THEN modulation ELSE modulation \o " " \o fec
ModcodParts(modulation, fec) ==
    IF modulation = "" /\ fec = "" THEN <<>>
    ELSE IF modulation = "" THEN <<fec>>
    ELSE IF fec = "" THEN <<modulation>>
    ELSE <<modulation, fec>>

\* line.iloc[0] of the rows that satisfy Match, <<>> when line.empty.
FirstRow(Match(_)) ==
    LET ks == {k \in DOMAIN ModulationRows : Match(ModulationRows[k])}
    IN  IF ks = {} THEN <<>>
        ELSE <<ModulationRows[CHOOSE k \in ks : \A j \in ks : k <= j]>>

\* The dict get_modulation_params returns for a row.
ParamsOf(row) ==
    [modulation |-> row.modulation, fec |-> row.fec,
     inforate |-> row.inforate, c_over_n |-> row.c_over_n]

\* get_modulation_params(modcod) for the label made of the given parts: the
\* row with that Modcod; else, for a label of two parts, the row with the
\* modulation and the FEC as given, else with the FEC rescaled; else the
\* first row of the modulation named by the whole label; else ValueError.
get_modulation_params(modulation, fec) ==
    LET label == ModcodLabel(modulation, fec)
        parts == ModcodParts(modulation, fec)
        exact == FirstRow(LAMBDA r : r.modcod = label)
        given == FirstRow(LAMBDA r : r.modulation = parts[1]
                                     /\ r.fec = parts[2])
        scaled == FirstRow(LAMBDA r : r.modulation = parts[1]
                                      /\ r.fec = FecScaled(parts[2]))
        line == IF Len(parts) < 2 THEN <<>>
                ELSE IF given = <<>> /\ FecScaled(parts[2]) # parts[2]
                     THEN scaled ELSE given
        only == FirstRow(LAMBDA r : r.modulation = label)
    IN  IF exact # <<>> THEN [ret |-> <<ParamsOf(exact[1])>>, err |-> ""]
        ELSE IF line # <<>> THEN [ret |-> <<ParamsOf(line[1])>>, err |-> ""]
        ELSE IF only # <<>> THEN [ret |-> <<ParamsOf(only[1])>>, err |-> ""]
        ELSE [ret |-> <<>>, err |-> "ValueError"]

-----------------------------------------------------------------------------
(* The simplified receiver: models/simple_reception.py                     *)

\* SimpleReception(gt_value, depoint_loss): frequency and elevation unset,
\* the hardware attributes at their compatibility values, caches unset.
SimpleReception(gt_value, depoint_loss) ==
    [gt_value |-> gt_value, depoint_loss |-> depoint_loss,
     freq |-> None, e |-> None, ant_size |-> None,
     coupling_loss |-> 0, lnb_gain |-> 0, lnb_noise_temp |-> 0,
     cable_loss |-> 0, gain |-> None, t_ground |-> None, t_sky |-> None]

\* SimpleReception.set_parameters(freq, e)
RxSetParameters(rx, freq, e) == [rx EXCEPT !.freq = Some(freq), !.e = Some(e)]

\* SimpleReception.get_figure_of_merit: the supplied G/T.
RxGetFigureOfMerit(rx) == rx.gt_value

\* SimpleReception.get_depoint_loss
RxGetDepointLoss(rx) == rx.depoint_loss

\* SimpleReception.get_antenna_gain: cached, else gt_value + 20 dB (cached).
RxGetAntennaGain(rx) ==
    IF rx.gain # None THEN [rx |-> rx, ret |-> Val(rx.gain)]
    ELSE [rx |-> [rx EXCEPT !.gain = Some(rx.gt_value + 200)],
          ret |-> rx.gt_value + 200]

\* SimpleReception.get_ground_temp: cached, else by elevation band (the
\* elevation is in tenths of a degree), 50 when nothing could be derived.
RxGetGroundTemp(rx) ==
    IF rx.t_ground # None THEN [rx |-> rx, ret |-> Val(rx.t_ground)]
    ELSE LET e == rx.e
             t == IF e = None THEN None
                  ELSE IF Val(e) < -100 THEN Some(290)
                  ELSE IF Val(e) < 0 THEN Some(150)
                  ELSE IF Val(e) < 100 THEN Some(50)
                  ELSE IF Val(e) < 900 THEN Some(10)
                  ELSE None
         IN  [rx |-> [rx EXCEPT !.t_ground = t],
              ret |-> IF t # None THEN Val(t) ELSE 50]

\* SimpleReception.get_brightness_temp: cached, else 10 + 0.5 e below 10 GHz
\* and 20 + 0.3 e from 10 GHz on, 15 when frequency or elevation is unset.
RxGetBrightnessTemp(rx) ==
    IF rx.t_sky # None THEN [rx |-> rx, ret |-> Val(rx.t_sky)]
    ELSE LET t == IF rx.freq = None \/ rx.e = None THEN None
                  ELSE IF Val(rx.freq) < 10
                       THEN Some(10 + Quot(Val(rx.e) * 5, 100))
                       ELSE Some(20 + Quot(Val(rx.e) * 3, 100))
         IN  [rx |-> [rx EXCEPT !.t_sky = t],
              ret |-> IF t # None THEN Val(t) ELSE 15]

-----------------------------------------------------------------------------
(* Ground stations and geometry.  The trigonometry of get_elevation and    *)
(* get_distance is tabulated for the stations of the model, for the        *)
(* satellite at longitude -70 and altitude 35786 km.                       *)

\* GroundStation(site_lat, site_long), in tenths of a degree.
StationA == [site_lat |-> -37, site_long |-> -459]
StationB == [site_lat |-> 750, site_long |-> -700]
Stations == {StationA, StationB}

\* degrees(arctan((cos(dlong) cos(lat) - 0.15116) / sqrt(1 - cos^2 cos^2))),
\* in tenths of a degree.
ElevationOf(gs) == IF gs = StationA THEN 615 ELSE 64

\* sqrt((R + h)^2 - (R cos e)^2) - R sin e, in km.
DistanceOf(gs) == IF gs = StationA THEN 36448 ELSE 40973

\* 1000 * cos(elevation)
CosElevationOf(gs) == IF gs = StationA THEN 477 ELSE 994

\* models.FsAtt.FreeSpaceAtt(distance_km, freq_GHz):
\* 20 log10(d) + 20 log10(f) + 92.45 dB.
FsAtt(d, f) == 2 * DbOfInt(d) + 2 * DbOfInt(f) + 924

-----------------------------------------------------------------------------
(* The atmospheric model, itur.atmospheric_attenuation_slant_path: an      *)
(* external function of (lat, long, frequency, elevation, p, diameter),    *)
(* deterministic for fixed inputs.  The model takes it as a step function  *)
(* of p, chosen by a climate; rain attenuation in tenths of a dB.          *)

RECURSIVE StepAt(_, _)
StepAt(tab, p) ==
    IF Len(tab) = 1 \/ p < tab[1][1] THEN tab[1][2] ELSE StepAt(Tail(tab), p)

\* Rain attenuation exceeded for p percent of the time, per climate, as
\* <<upper end of the interval of p, attenuation>> steps.
RainTab(climate) ==
    CASE climate = 1 -> << <<11000, 120>>, <<13000, 60>>, <<50000, 44>>,
                           <<500000, 30>>, <<50000000, 10>>, <<0, 5>> >>
      [] climate = 2 -> << <<0, 5>> >>
      [] climate = 3 -> << <<11000, 120>>, <<12500, 60>>, <<0, 10>> >>
      [] OTHER       -> << <<0, 35>> >>

\* a_g, a_c, a_r, a_s, a_t returned for (station, frequency, elevation, p,
\* diameter) under a climate.
AtmosphericAttenuation(climate, gs, freq, e, p, diam) ==
    LET a_r == StepAt(RainTab(climate), p)
        a_g == IF freq < 10 THEN 1 ELSE 2
        a_c == IF e < 100 THEN 6 ELSE 3
        a_s == 1
    IN  [a_g |-> a_g, a_c |-> a_c, a_r |-> a_r, a_s |-> a_s,
         a_t |-> a_g + a_c + a_r + a_s]

-----------------------------------------------------------------------------
(* The link session: satellite_new.Satellite                               *)

\* Satellite.__init__(position, transponder, carrier): the attributes are
\* copied from the components, then the effective EIRP is computed (which
\* may write the default bandwidth into the components), then every derived
\* field is unset.  The result holds the session and the components as
\* __init__ leaves them.
NewSatellite(tp, ca) ==
    LET r == calculate_eirp(tp, ca)
    IN  [tp |-> r.tp, ca |-> r.ca,
         sat |-> [freq |-> tp.freq, eirp_max |-> tp.eirp_max,
                  b_transp |-> tp.b_transp, b_util |-> ca.b_util,
                  back_off |-> tp.back_off, contorno |-> tp.contorno,
                  modulation |-> ca.modulation, fec |-> ca.fec,
                  roll_off |-> ca.roll_off, eirp |-> r.eirp,
                  a_g |-> None, a_c |-> None, a_r |-> None, a_s |-> None,
                  a_t |-> None, a_fs |-> None, a_x |-> None, a_co |-> None,
                  a_tot |-> None, p |-> None,
                  cross_pol_discrimination |-> None,
                  power_flux_density |-> None, antenna_noise_rain |-> None,
                  total_noise_temp |-> None, figure_of_merit |-> None,
                  c_over_n0 |-> None, snr |-> None, snr_threshold |-> None,
                  availability |-> None, grstation |-> None,
                  reception |-> None]]

(* An operation runs on a world w = [sat, rx, ca, gs, climate, calls]: the *)
(* session, the receiver, carrier and ground-station objects, the climate  *)
(* of the atmospheric model and the probabilities the atmospheric model    *)
(* was called with so far in the operation.  It yields [w, ret, err]: the  *)
(* world it leaves, the tuple it returns and the exception that ended it   *)
(* ("" for none; sys.exit is "SystemExit").                                *)

Ok(w, ret) == [w |-> w, ret |-> ret, err |-> ""]
Raise(w, e) == [w |-> w, ret |-> <<>>, err |-> e]
\* The sys.exit calls, by message.
ConfigError == "SystemExit: need to associate a ground station / reception"
EirpError == "SystemExit: please set the satellite's E.I.R.P"
ModcodError == "SystemExit: need a modulation and FEC"
UnreachableError == "SystemExit: can't reach the required SNR"

\* A statement sequence: the value v of a call or expression, then the rest
\* F of the method with v bound.
Bind(v, F(_)) == F(v)
\* The same for a call of a method that may raise: its exception ends the
\* calling method too.
Then(r, F(_)) == IF r.err # "" THEN r ELSE F(r)

\* Satellite.get_elevation
get_elevation(w) ==
    IF w.sat.grstation = None THEN Raise(w, ConfigError)
    ELSE Ok(w, <<ElevationOf(Val(w.sat.grstation))>>)

\* Satellite.get_distance
get_distance(w) ==
    IF w.sat.grstation = None THEN Raise(w, ConfigError)
    ELSE Ok(w, <<DistanceOf(Val(w.sat.grstation))>>)

\* Satellite.get_azimuth: the angle itself is not modelled, only whether the
\* call returns.
get_azimuth(w) ==
    IF w.sat.grstation = None THEN Raise(w, ConfigError)
    ELSE Ok(w, <<Val(w.sat.grstation).site_long>>)

\* Satellite.set_grstation
set_grstation(w, gs) == Ok([w EXCEPT !.sat.grstation = Some(gs)], <<>>)

\* set_reception with the session referring to the receiver before the
\* elevation is evaluated.
set_reception_AssociatesFirst(w) ==
    Bind([w EXCEPT !.sat.reception = Some("rx")], LAMBDA w1 :
        Then(get_elevation(w1), LAMBDA e :
            Ok([w1 EXCEPT !.rx = RxSetParameters(w.rx, w.sat.freq, e.ret[1])],
               <<>>)))

\* Satellite.set_reception: the elevation is evaluated first (and exits
\* without a ground station), then the receiver takes the session's
\* frequency and elevation, then the session refers to the receiver.
set_reception(w) ==
    Then(get_elevation(w), LAMBDA e :
        Ok([w EXCEPT !.rx = RxSetParameters(w.rx, w.sat.freq, e.ret[1]),
                     !.sat.reception = Some("rx")], <<>>))

\* The tuple get_link_attenuation returns from the cached fields.
AttenuationTuple(w) ==
    <<Val(w.sat.a_fs), RxGetDepointLoss(w.rx), Val(w.sat.a_g), Val(w.sat.a_c),
      Val(w.sat.a_r), Val(w.sat.a_s), Val(w.sat.a_t), Val(w.sat.a_tot)>>

\* The else branch of get_link_attenuation on a session w for probability
\* p: free-space loss, the atmospheric model (its call recorded), the
\* total, and the dependent fields erased.
ComputeLinkAttenuation(w, p) ==
    Bind(AtmosphericAttenuation(w.climate, Val(w.sat.grstation), w.sat.freq,
             ElevationOf(Val(w.sat.grstation)), Val(p),
             IF w.rx.ant_size # None THEN Val(w.rx.ant_size) ELSE 10),
         LAMBDA a :
    Bind(FsAtt(DistanceOf(Val(w.sat.grstation)), w.sat.freq), LAMBDA a_fs :
    Bind([w EXCEPT !.calls = Append(w.calls, p),
                   !.sat.a_g = Some(a.a_g),
                   !.sat.a_c = Some(a.a_c),
                   !.sat.a_r = Some(a.a_r),
                   !.sat.a_s = Some(a.a_s),
                   !.sat.a_t = Some(a.a_t),
                   !.sat.a_fs = Some(a_fs),
                   !.sat.a_tot = Some(a_fs + RxGetDepointLoss(w.rx) + a.a_t),
                   !.sat.p = p,
                   !.sat.power_flux_density = None,
                   !.sat.antenna_noise_rain = None,
                   !.sat.total_noise_temp = None,
                   !.sat.figure_of_merit = None,
                   !.sat.c_over_n0 = None,
                   !.sat.snr = None,
                   !.sat.cross_pol_discrimination = None],
         LAMBDA w2 : Ok(w2, AttenuationTuple(w2)))))

\* Satellite.get_link_attenuation(p): p is an optional probability (the
\* internal callers pass self.p, which may be None).  While the session has
\* no cached probability, both self.p and p become 0.001.
get_link_attenuation(w, parg) ==
    IF w.sat.grstation = None THEN Raise(w, ConfigError)
    ELSE IF w.sat.reception = None THEN Raise(w, ConfigError)
    ELSE IF w.sat.p = None
    THEN IF w.sat.a_tot # None
         THEN Bind([w EXCEPT !.sat.p = Some(P001)],
                   LAMBDA w1 : Ok(w1, AttenuationTuple(w1)))
         ELSE ComputeLinkAttenuation([w EXCEPT !.sat.p = Some(P001)],
                                     Some(P001))
    ELSE IF w.sat.a_tot # None /\ parg = w.sat.p
    THEN Ok(w, AttenuationTuple(w))
    ELSE ComputeLinkAttenuation(w, parg)

\* The probability a getter hands to get_link_attenuation: its own p when
\* one was given, else the session's cached p.
PassedP(w, parg) == IF parg # None THEN parg ELSE w.sat.p

\* np.interp(p, [0.001, 0.01, 0.1, 1], [15, 10, 5, 0]), times 1000.
SigmaOf(p) ==
    IF p <= 10000 THEN 15000
    ELSE IF p <= 100000
         THEN 15000 - (((p - 10000) \div 100) * 5000) \div 900
    ELSE IF p <= 1000000
         THEN 10000 - (((p - 100000) \div 1000) * 5000) \div 900
    ELSE IF p <= 10000000
         THEN 5000 - (((p - 1000000) \div 10000) * 5000) \div 900
    ELSE 0

\* xpd_rain = cf - ca + c_tau + c_teta + c_sigma for frequency f; tau = 45
\* degrees makes c_tau = -10 log10(1 - 0.484 (1 + cos 180)) = 0.
XpdRainOf(f, a_r, gs, p) ==
    2 * DbOfInt(f)
    - Quot((IF 8 <= f /\ f <= 20
            THEN (128 * DbToLin((19 * DbOfInt(f)) \div 100)) \div 1000
            ELSE 226) * (DbOfInt(a_r) - 100), 100)
    + 0
    - 4 * LinToDb(CosElevationOf(gs))
    + (52 * SigmaOf(p)) \div 1000000

\* The XPD formula of get_cross_pol_discrimination for frequency freq (GHz),
\* rain attenuation a_r, station gs and cached probability p:
\* xpd_rain - c_ice with c_ice = xpd_rain (0.3 + 0.1 log10 p) / 2, and the
\* replacement formula below 8 GHz.
XpdOf(freq, a_r, gs, p) ==
    Bind(XpdRainOf(IF freq < 8 THEN 10 ELSE freq, a_r, gs, p),
         LAMBDA xpd_rain :
            IF freq < 8
            THEN xpd_rain
                 - Quot(23026 * (DbOfInt(516 * freq) - 300), 100000)
            ELSE xpd_rain - Quot(xpd_rain * (DbOfInt(p) - 400), 2000))

\* Satellite.get_cross_pol_discrimination(p): the cached branch returns the
\* discrimination alone, the computing branch the triple
\* (discrimination, a_co, a_x).
get_cross_pol_discrimination(w, parg) ==
    IF w.sat.cross_pol_discrimination # None /\ parg = w.sat.p
    THEN Ok(w, <<Val(w.sat.cross_pol_discrimination)>>)
    ELSE Then(get_link_attenuation(w, PassedP(w, parg)), LAMBDA r :
         Bind(XpdOf(r.w.sat.freq, r.ret[5], Val(r.w.sat.grstation),
                    Val(r.w.sat.p)), LAMBDA xpd :
         Bind(LinToDb(1000 + DbToLin(xpd)), LAMBDA a_x :
         Bind(LinToDb(1000 + DbToLin(-xpd)), LAMBDA a_co :
            Ok([r.w EXCEPT !.sat.a_x = Some(a_x),
                           !.sat.a_co = Some(a_co),
                           !.sat.cross_pol_discrimination = Some(xpd)],
               <<xpd, a_co, a_x>>)))))

\* get_total_attenuation taking the discrimination out of the triple, so
\* that the call completes and stores its total.
get_total_attenuation_Unpacked(w) ==
    Then(get_distance(w), LAMBDA d :
    Then(get_cross_pol_discrimination(
             [w EXCEPT !.sat.a_fs = Some(FsAtt(d.ret[1], w.sat.freq))], None),
         LAMBDA x :
            Bind(LinToDb(1000 + DbToLin(x.ret[1])), LAMBDA a_x :
            Bind(Val(x.w.sat.a_fs) + a_x + RxGetDepointLoss(x.w.rx)
                 + Val(x.w.sat.a_t), LAMBDA a_tot :
               Ok([x.w EXCEPT !.sat.a_x = Some(a_x),
                              !.sat.a_co = Some(a_x),
                              !.sat.a_tot = Some(a_tot)],
                  <<a_tot, Val(x.w.sat.a_t), RxGetDepointLoss(x.w.rx)>>)))))

\* Satellite.get_total_attenuation: stores the free-space loss, asks for the
\* cross-polarization discrimination with no p, and then computes
\* 10 ** (0.1 * xpd) with what that call returned: the triple of the
\* computing branch makes this a TypeError, the scalar of the cached branch
\* does not.
get_total_attenuation(w) ==
    Then(get_distance(w), LAMBDA d :
    Then(get_cross_pol_discrimination(
             [w EXCEPT !.sat.a_fs = Some(FsAtt(d.ret[1], w.sat.freq))], None),
         LAMBDA x :
            IF Len(x.ret) # 1 THEN Raise(x.w, "TypeError")
            ELSE Bind(LinToDb(1000 + DbToLin(x.ret[1])), LAMBDA a_x :
                 Bind(Val(x.w.sat.a_fs) + a_x + RxGetDepointLoss(x.w.rx)
                      + Val(x.w.sat.a_t), LAMBDA a_tot :
                    Ok([x.w EXCEPT !.sat.a_x = Some(a_x),
                                   !.sat.a_co = Some(a_x),
                                   !.sat.a_tot = Some(a_tot)],
                       <<a_tot, Val(x.w.sat.a_t),
                         RxGetDepointLoss(x.w.rx)>>)))))

\* Satellite.get_power_flux_density(p):
\* 10 log10(10^((eirp - a_t)/10) / (4 pi (1000 d)^2)).
get_power_flux_density(w, parg) ==
    IF w.sat.grstation = None THEN Raise(w, ConfigError)
    ELSE IF w.sat.reception = None THEN Raise(w, ConfigError)
    ELSE IF w.sat.power_flux_density # None /\ parg = w.sat.p
    THEN Ok(w, <<Val(w.sat.power_flux_density)>>)
    ELSE Then(get_link_attenuation(w, PassedP(w, parg)), LAMBDA r :
         Bind((r.w.sat.eirp - r.ret[7]) - 110
              - 2 * (DbOfInt(DistanceOf(Val(r.w.sat.grstation))) + 300),
              LAMBDA pfd :
                 Ok([r.w EXCEPT !.sat.power_flux_density = Some(pfd)],
                    <<pfd>>)))

\* t_sky / a + 275 (1 - 1/a) + t_ground for a = 10^(a_t / 10).
AntennaNoiseRainOf(t_sky, t_ground, a_t) ==
    Bind(DbToLin(a_t), LAMBDA a :
        (t_sky * 1000) \div a + (275 - (275 * 1000) \div a) + t_ground)

\* Satellite.get_antenna_noise_rain(p)
get_antenna_noise_rain(w, parg) ==
    IF w.sat.reception = None THEN Raise(w, ConfigError)
    ELSE IF w.sat.antenna_noise_rain # None /\ w.sat.p = parg
    THEN Ok(w, <<Val(w.sat.antenna_noise_rain)>>)
    ELSE Then(get_link_attenuation(w, PassedP(w, parg)), LAMBDA r :
         Bind(RxGetBrightnessTemp(r.w.rx), LAMBDA b :
         Bind(RxGetGroundTemp(b.rx), LAMBDA g :
         Bind(AntennaNoiseRainOf(b.ret, g.ret, r.ret[7]), LAMBDA t :
            Ok([r.w EXCEPT !.rx = g.rx, !.sat.antenna_noise_rain = Some(t)],
               <<t>>)))))

\* antenna noise + LNB noise + 290 (loss - 1) / 10^(lnb_gain / 10)
TotalNoiseTempOf(t_ant, rx) ==
    t_ant + rx.lnb_noise_temp
    + (((290 * (DbToLin(rx.coupling_loss + rx.cable_loss) - 1000)) \div 1000)
       * 1000) \div DbToLin(rx.lnb_gain)

\* Satellite.get_total_noise_temp(p): the first test reads
\* self.reception.e, an AttributeError while no receiver is set.
get_total_noise_temp(w, parg) ==
    IF w.sat.reception = None THEN Raise(w, "AttributeError")
    ELSE IF w.rx.e = None THEN Raise(w, ConfigError)
    ELSE IF w.sat.total_noise_temp # None /\ parg = w.sat.p
    THEN Ok(w, <<Val(w.sat.total_noise_temp)>>)
    ELSE Then(IF parg # None THEN get_link_attenuation(w, parg)
              ELSE Ok(w, <<>>), LAMBDA r :
         Then(get_antenna_noise_rain(r.w, None), LAMBDA a :
         Bind(TotalNoiseTempOf(a.ret[1], a.w.rx), LAMBDA t :
            Ok([a.w EXCEPT !.sat.total_noise_temp = Some(t)], <<t>>))))

\* 10 log10((alfa beta G) / (alfa ta + (1 - alfa) 290 + (n - 1) 290)) with
\* n = tn / 290 + 1; the logarithm of the numerator is the sum of the three
\* dB figures.
FigureOfMeritOf(rx, gain, ta, tn) ==
    Bind(DbToLin(rx.coupling_loss + rx.cable_loss), LAMBDA alfa :
        (rx.coupling_loss + rx.cable_loss + RxGetDepointLoss(rx) + gain)
        - DbOfInt(Quot(alfa * ta + (1000 - alfa) * 290, 1000) + tn))

\* Satellite.get_figure_of_merit(p): a cached figure is returned whatever p
\* is; with no p and no receiver the first attribute read of
\* self.reception is an AttributeError.
get_figure_of_merit(w, parg) ==
    IF w.sat.figure_of_merit # None
    THEN Ok(w, <<Val(w.sat.figure_of_merit)>>)
    ELSE Then(IF parg # None THEN get_link_attenuation(w, parg)
              ELSE Ok(w, <<>>), LAMBDA r :
         IF r.w.sat.reception = None THEN Raise(r.w, "AttributeError")
         ELSE Bind(RxGetAntennaGain(r.w.rx), LAMBDA g :
              Then(get_antenna_noise_rain([r.w EXCEPT !.rx = g.rx], None),
                   LAMBDA ta :
              Then(get_total_noise_temp(ta.w, None), LAMBDA tn :
              Bind(FigureOfMeritOf(tn.w.rx, g.ret, ta.ret[1], tn.ret[1]),
                   LAMBDA fom :
                 Ok([tn.w EXCEPT !.sat.figure_of_merit = Some(fom)],
                    <<fom>>))))))

\* Satellite.get_c_over_n0(p): eirp - a_tot + G/T + 228.6
get_c_over_n0(w, parg) ==
    IF w.sat.reception = None THEN Raise(w, ConfigError)
    ELSE IF w.sat.eirp_max = 0 THEN Raise(w, EirpError)
    ELSE IF w.sat.c_over_n0 # None /\ w.sat.p = parg
    THEN Ok(w, <<Val(w.sat.c_over_n0)>>)
    ELSE Then(get_link_attenuation(w, PassedP(w, parg)), LAMBDA r :
         Then(get_figure_of_merit(r.w, None), LAMBDA g :
         Bind(g.w.sat.eirp - r.ret[8] + g.ret[1] + 2286, LAMBDA c :
            Ok([g.w EXCEPT !.sat.c_over_n0 = Some(c), !.sat.snr = None],
               <<c>>))))

\* 10 * np.log10(b_util * 10 ** 6) for an optional bandwidth in MHz: a
\* TypeError for None, minus infinity for 0.
BandwidthDb(b_util) ==
    IF b_util = None THEN [err |-> "TypeError", ret |-> 0]
    ELSE IF Val(b_util) = 0 THEN [err |-> "", ret |-> -Inf]
    ELSE [err |-> "", ret |-> 600 + DbOfInt(Val(b_util))]

\* get_snr with the cache test reduced to "self.snr is not None".
get_snr_AnyCached(w, parg) ==
    IF w.sat.snr # None
    THEN Ok(w, <<Val(w.sat.snr)>>)
    ELSE Then(get_link_attenuation(w, PassedP(w, parg)), LAMBDA r :
         Then(get_c_over_n0(r.w, parg), LAMBDA c :
         Bind(BandwidthDb(c.w.sat.b_util), LAMBDA b :
            IF b.err # "" THEN Raise(c.w, b.err)
            ELSE Bind(IF b.ret = -Inf THEN Inf ELSE c.ret[1] - b.ret,
                      LAMBDA snr :
                         Ok([c.w EXCEPT !.sat.snr = Some(snr)], <<snr>>)))))

\* Satellite.get_snr(p): C/N0 - 10 log10(b_util * 10^6), with the session's
\* own copy of the utilized bandwidth.
get_snr(w, parg) ==
    IF parg = w.sat.p /\ w.sat.snr # None
    THEN Ok(w, <<Val(w.sat.snr)>>)
    ELSE Then(get_link_attenuation(w, PassedP(w, parg)), LAMBDA r :
         Then(get_c_over_n0(r.w, parg), LAMBDA c :
         Bind(BandwidthDb(c.w.sat.b_util), LAMBDA b :
            IF b.err # "" THEN Raise(c.w, b.err)
            ELSE Bind(IF b.ret = -Inf THEN Inf ELSE c.ret[1] - b.ret,
                      LAMBDA snr :
                         Ok([c.w EXCEPT !.sat.snr = Some(snr)], <<snr>>)))))

\* Satellite.get_reception_threshold
get_reception_threshold(w) ==
    IF w.sat.modulation = "" \/ w.sat.fec = "" THEN Raise(w, ModcodError)
    ELSE IF w.sat.snr_threshold # None THEN Ok(w, w.sat.snr_threshold)
    ELSE Bind(CarrierGetSnrThreshold(w.ca), LAMBDA t :
            IF t.err # "" THEN Raise(w, t.err)
            ELSE Ok([w EXCEPT !.ca = t.ca, !.sat.snr_threshold = t.ret],
                    t.ret))

-----------------------------------------------------------------------------
(* The state: the transponder and (in w) the carrier, receiver and session *)
(* objects, the last operation called on the session with its outcome, and *)
(* the locals of a running get_availability.                               *)

VARIABLES tp, w, last, av, sh, mc, db, web, calc

vars == <<tp, w, last, av, sh, mc, db, web, calc>>

\* sh is the state of two sessions built over shared components, mc the
\* state of the MODCOD-table lookups, db the state of the database manager,
\* web the state of the web application and its clients, calc the state of
\* a link-calculation request; each is idle in the behaviours that are not
\* about it.
ShIdle == [pc |-> "idle"]
McIdle == [pc |-> "idle"]
DbIdle == [pc |-> "idle"]
WebIdle == [pc |-> "idle"]
CalcIdle == [pc |-> "idle"]

\* How many probabilities the callers of the getters draw from.
NProbs == 2
\* 0.001, 0.01, ... percent
Probs == {P001 * Pow10(k) : k \in 0..(NProbs - 1)}
\* The p argument of a getter whose default is None.
ProbArgs == {None} \cup {Some(q) : q \in Probs}

\* The (transponder, carrier) bandwidths in MHz the components are built
\* with: given, zero, unset.
Bandwidths == {<<Some(36), Some(9)>>, <<Some(0), Some(0)>>, <<None, None>>}

\* The receiver of the model: SimpleReception(gt_value=20, depoint_loss=0.5)
TheReception == SimpleReception(200, 5)

\* The components of the model: Transponder(freq=14, eirp_max=54,
\* b_transp, back_off=0, contorno=0) and Carrier('8PSK', 0.2, '120/180',
\* b_util).
TheTransponder(b_transp) == Transponder(14, 540, b_transp, 0, 0)
TheCarrier(b_util) == Carrier("8PSK", 20, "120/180", b_util)

\* No call yet.  A call is recorded with its method, its p argument, what it
\* returned or raised, and how it follows the call before it: "same" for the
\* same method with the same p, "other" for the same method with another
\* given p after a given p, "none" otherwise.
NoCall == [op |-> "", p |-> None, ret |-> <<>>, err |-> "", rel |-> "none"]
AvIdle == [pc |-> "idle"]

\* The world after Satellite(position, tp0, ca0) under a climate, with the
\* caller's ground station and receiver objects not yet associated.
NewWorld(tp0, ca0, gs, climate) ==
    Bind(NewSatellite(tp0, ca0), LAMBDA n :
        [sat |-> n.sat, rx |-> TheReception, ca |-> n.ca, gs |-> gs,
         climate |-> climate, calls |-> <<>>])

Init ==
    \E b \in Bandwidths, gs \in Stations :
        /\ tp = NewSatellite(TheTransponder(b[1]), TheCarrier(b[2])).tp
        /\ w = NewWorld(TheTransponder(b[1]), TheCarrier(b[2]), gs, 1)
        /\ last = NoCall
        /\ av = AvIdle
        /\ sh = ShIdle /\ mc = McIdle /\ db = DbIdle /\ web = WebIdle /\ calc = CalcIdle

\* One call of an operation on the session: the operation starts with an
\* empty record of atmospheric-model calls and leaves its outcome in last.
Follows(op, parg) ==
    IF last.op # op THEN "none"
    ELSE IF last.p = parg THEN "same"
    ELSE IF last.p # None /\ parg # None THEN "other"
    ELSE "none"

Call(op, parg, res) ==
    /\ \E r \in {res} :
          /\ w' = r.w
          /\ last' = [op |-> op, p |-> parg, ret |-> r.ret, err |-> r.err,
                      rel |-> Follows(op, parg)]
    /\ UNCHANGED <<tp, av, sh, mc, db, web, calc>>

Fresh == [w EXCEPT !.calls = <<>>]

SetGrstation == Call("set_grstation", None, set_grstation(Fresh, w.gs))
SetReception == Call("set_reception", None, set_reception(Fresh))
GetElevation == Call("get_elevation", None, get_elevation(Fresh))
GetAzimuth == Call("get_azimuth", None, get_azimuth(Fresh))
GetDistance == Call("get_distance", None, get_distance(Fresh))
GetReceptionThreshold ==
    Call("get_reception_threshold", None, get_reception_threshold(Fresh))
GetLinkAttenuation ==
    \E q \in Probs :
        Call("get_link_attenuation", Some(q), get_link_attenuation(Fresh, Some(q)))
GetTotalAttenuation ==
    Call("get_total_attenuation", None, get_total_attenuation(Fresh))
GetCrossPolDiscrimination ==
    \E q \in ProbArgs :
        Call("get_cross_pol_discrimination", q, get_cross_pol_discrimination(Fresh, q))
GetPowerFluxDensity ==
    \E q \in ProbArgs :
        Call("get_power_flux_density", q, get_power_flux_density(Fresh, q))
GetAntennaNoiseRain ==
    \E q \in ProbArgs :
        Call("get_antenna_noise_rain", q, get_antenna_noise_rain(Fresh, q))
GetTotalNoiseTemp ==
    \E q \in ProbArgs :
        Call("get_total_noise_temp", q, get_total_noise_temp(Fresh, q))
GetFigureOfMerit ==
    \E q \in ProbArgs :
        Call("get_figure_of_merit", q, get_figure_of_merit(Fresh, q))
GetCOverN0 ==
    \E q \in ProbArgs : Call("get_c_over_n0", q, get_c_over_n0(Fresh, q))
GetSnr ==
    \E q \in ProbArgs : Call("get_snr", q, get_snr(Fresh, q))

Next ==
    \/ SetGrstation
    \/ SetReception
    \/ GetElevation
    \/ GetAzimuth
    \/ GetDistance
    \/ GetReceptionThreshold
    \/ GetLinkAttenuation
    \/ GetTotalAttenuation
    \/ GetCrossPolDiscrimination
    \/ GetPowerFluxDensity
    \/ GetAntennaNoiseRain
    \/ GetTotalNoiseTemp
    \/ GetFigureOfMerit
    \/ GetCOverN0
    \/ GetSnr

Spec == Init /\ [][Next]_vars

-----------------------------------------------------------------------------
(* Satellite.get_availability, one action per control point: the code up   *)
(* to the loop, one iteration of the loop, the exit after the loop.        *)

\* for i in range(1, IterCap)
IterCap == 5000
\* p = 0.0012, speed = 0.000005, the bounds 0.001 and 50 of the search, the
\* 100 that p_old is reset to and the 1 that speed_old is reset to.
PStart == 12000
SpeedStart == 50
PMin == 10000
PMax == 500000000
POldReset == 1000000000
SpeedOldReset == 10000000
\* delta_old = 1000000000 and p_old = 10000000 exceed the fixed-point range;
\* the model keeps values that, like them, exceed every finite
\* |SNR - target| and every |p_old - p| < 0.001 test.
DeltaOldStart == 1000000000
POldStart == 2000000000
\* The fast path's 99.999
FastAvailability == 999990000
\* The 0.001 that |p_old - p| is compared with
StallStep == 10000

\* How many of the values of a np.random.choice the model draws.
NChoices == 2
\* The indices drawn out of an array of n values, spread over it.
ChoiceIdx(n) == {(j * n) \div NChoices : j \in 0..(NChoices - 1)}
\* np.arange(0.001, 0.002, 0.000005) has 200 values, np.arange(0.01, 2, 0.01)
\* has 199.
LowChoices == {PMin + 50 * k : k \in ChoiceIdx(200)}
HighChoices == {100000 * (k + 1) : k \in ChoiceIdx(199)}

\* models.util.truncate(x, 3): x cut to three decimal digits.
truncate3(x) == (x \div 10000) * 10000

\* a - b on floats that may be infinite
FSub(a, b) == IF a = Inf THEN Inf ELSE a - b

\* speed_old * speed < 1, exactly: the product of two fixed-point numbers
\* below 10^9 is compared with PUnit^2 = 10^14 in base 10^4.
ProductBelowOne(x, y) ==
    IF x = 0 \/ y = 0 \/ (x < 0) # (y < 0) THEN TRUE
    ELSE LET a == Abs(x)
             b == Abs(y)
         IN  IF a >= PUnit /\ b >= PUnit THEN FALSE
             ELSE LET a1 == a \div 10000
                      a0 == a % 10000
                      b1 == b \div 10000
                      b0 == b % 10000
                      m  == a1 * b0 + a0 * b1
                      hi == a1 * b1 + m \div 10000
                            + ((m % 10000) * 10000 + a0 * b0) \div 100000000
                  IN  hi < 1000000

\* The locals with the loop as range(0, IterCap).
AvLocals_FromZero(margin, relaxation, target) ==
    [pc |-> "loop", margin |-> margin, relaxation |-> relaxation,
     target |-> target, p |-> PStart, speed |-> SpeedStart, speed_old |-> 0,
     delta |-> 0, delta_old |-> DeltaOldStart, p_old |-> POldStart, i |-> 0,
     iters |-> 0, result |-> None, err |-> "", path |-> "", evals |-> <<>>]

\* The locals of get_availability before the loop, for a target: i is the
\* first value of range(1, IterCap); iters counts the iterations begun, path
\* names the return taken and evals lists the probabilities get_snr was
\* called with in the last step.
AvLocals(margin, relaxation, target) ==
    [pc |-> "loop", margin |-> margin, relaxation |-> relaxation,
     target |-> target, p |-> PStart, speed |-> SpeedStart, speed_old |-> 0,
     delta |-> 0, delta_old |-> DeltaOldStart, p_old |-> POldStart, i |-> 1,
     iters |-> 0, result |-> None, err |-> "", path |-> "", evals |-> <<>>]

AvEnd(a, pc, path, result, err) ==
    [a EXCEPT !.pc = pc, !.path = path, !.result = result, !.err = err]

\* The search left with w1 as the world and an exception.
AvFail(w1, a, err) == [w |-> w1, av |-> AvEnd(a, "failed", "", None, err)]

\* The search returning: self.availability = 100 - p, and
\* truncate(self.availability, 3) returned.
AvReturn(w1, a, path) ==
    [w |-> [w1 EXCEPT !.sat.availability = Some(1000000000 - a.p)],
     av |-> AvEnd(a, "done", path, Some(truncate3(1000000000 - a.p)), "")]

\* get_availability up to the loop with the fast path's test turned round
\* (delta <= 0).
AvStartOf_TestReversed(w0, margin, relaxation) ==
    Bind(get_reception_threshold(w0), LAMBDA t :
        IF t.err # "" THEN AvFail(t.w, AvLocals(margin, relaxation, 0), t.err)
        ELSE Bind(AvLocals(margin, relaxation, t.ret[1] + margin), LAMBDA a0 :
             Bind(get_snr(t.w, Some(P001)), LAMBDA s :
                IF s.err # "" THEN AvFail(s.w, a0, s.err)
                ELSE Bind([a0 EXCEPT !.delta = FSub(s.ret[1], a0.target),
                                     !.evals = <<P001>>], LAMBDA a1 :
                        IF a1.delta <= 0
                        THEN [w |-> s.w,
                              av |-> AvEnd(a1, "done", "fast",
                                           Some(FastAvailability), "")]
                        ELSE [w |-> s.w, av |-> a1]))))

\* get_availability(margin, relaxation) up to the loop: the target from the
\* reception threshold, the SNR at p = 0.001, and the fast return of 99.999
\* when that SNR reaches the target.
AvStartOf(w0, margin, relaxation) ==
    Bind(get_reception_threshold(w0), LAMBDA t :
        IF t.err # "" THEN AvFail(t.w, AvLocals(margin, relaxation, 0), t.err)
        ELSE Bind(AvLocals(margin, relaxation, t.ret[1] + margin), LAMBDA a0 :
             Bind(get_snr(t.w, Some(P001)), LAMBDA s :
                IF s.err # "" THEN AvFail(s.w, a0, s.err)
                ELSE Bind([a0 EXCEPT !.delta = FSub(s.ret[1], a0.target),
                                     !.evals = <<P001>>], LAMBDA a1 :
                        IF a1.delta >= 0
                        THEN [w |-> s.w,
                              av |-> AvEnd(a1, "done", "fast",
                                           Some(FastAvailability), "")]
                        ELSE [w |-> s.w, av |-> a1]))))

\* The step of an iteration that has not returned: the new speed for a delta
\* that got worse (reversed) or did not (grown), applied to p.
AvAdvance(a, worse) ==
    Bind(IF worse THEN Quot(-a.speed, 10) ELSE a.speed + Quot(a.speed, 2),
         LAMBDA speed :
            [a EXCEPT !.speed_old = a.speed, !.speed = speed, !.p_old = a.p,
                      !.p = a.p + speed])

\* The search without the upper bound on p.
AvHigh_Unbounded(a, hi) == a

\* p > 50: p restarts at 50 - hi, hi being the value the random choice
\* draws.
AvHigh(a, hi) ==
    IF a.p > PMax
    THEN [a EXCEPT !.p_old = POldReset, !.p = PMax - hi,
                   !.speed_old = SpeedOldReset, !.speed = SpeedStart]
    ELSE a

\* The end of an iteration: delta_old takes delta, and i its next value.
AvClose(a) == [a EXCEPT !.delta_old = a.delta, !.i = a.i + 1]

\* The boundary handling that ends an iteration, with the values lo and hi
\* the two random choices would draw: below 0.001, p restarts at
\* 0.001 + lo and the SNR is evaluated there; above 50, p restarts at
\* 50 - hi; then delta_old takes delta.
AvBoundary(w0, a, lo, hi) ==
    IF a.p < PMin
    THEN Bind([a EXCEPT !.p_old = POldReset, !.p = PMin + lo,
                        !.speed_old = SpeedOldReset, !.speed = SpeedStart],
              LAMBDA a1 :
         Bind(get_snr(w0, Some(a1.p)), LAMBDA s :
            IF s.err # "" THEN AvFail(s.w, a1, s.err)
            ELSE [w |-> s.w,
                  av |-> AvClose(AvHigh(
                            [a1 EXCEPT !.delta = Abs(FSub(s.ret[1], a.target)),
                                       !.evals = Append(a.evals, a1.p)],
                            hi))]))
    ELSE [w |-> w0, av |-> AvClose(AvHigh(a, hi))]

\* One iteration with delta taken without abs().
AvIterationOf_Signed(w0, a) ==
    Bind(get_snr(w0, Some(a.p)), LAMBDA s :
        IF s.err # "" THEN AvFail(s.w, a, s.err)
        ELSE Bind([a EXCEPT !.delta = FSub(s.ret[1], a.target),
                            !.evals = <<a.p>>], LAMBDA a1 :
                IF a1.delta < a.relaxation
                THEN AvReturn(s.w, a1, "converged")
                ELSE IF a1.delta_old < a1.delta
                THEN IF Abs(a1.p_old - a1.p) < StallStep
                        /\ ProductBelowOne(a1.speed_old, a1.speed)
                     THEN AvReturn(s.w, a1, "stalled")
                     ELSE [w |-> s.w, av |-> AvAdvance(a1, TRUE)]
                ELSE [w |-> s.w, av |-> AvAdvance(a1, FALSE)]))

\* One iteration of the loop up to its boundary handling: the SNR at p; the
\* return when delta is within the relaxation; for a delta that got worse,
\* the return when p moved by less than 0.001 and speed_old * speed < 1,
\* else the reversed step; for a delta that did not get worse, the grown
\* step.
AvIterationOf(w0, a) ==
    Bind(get_snr(w0, Some(a.p)), LAMBDA s :
        IF s.err # "" THEN AvFail(s.w, a, s.err)
        ELSE Bind([a EXCEPT !.delta = Abs(FSub(s.ret[1], a.target)),
                            !.evals = <<a.p>>], LAMBDA a1 :
                IF a1.delta < a.relaxation
                THEN AvReturn(s.w, a1, "converged")
                ELSE IF a1.delta_old < a1.delta
                THEN IF Abs(a1.p_old - a1.p) < StallStep
                        /\ ProductBelowOne(a1.speed_old, a1.speed)
                     THEN AvReturn(s.w, a1, "stalled")
                     ELSE [w |-> s.w, av |-> AvAdvance(a1, TRUE)]
                ELSE [w |-> s.w, av |-> AvAdvance(a1, FALSE)]))

\* The margins and relaxations (tenths of a dB) get_availability is called
\* with.
Margins == {0, 20}
Relaxations == {1, 10}
\* The climates of the atmospheric model the search runs under.
Climates == 1..4

InitAvail ==
    \E b \in Bandwidths, climate \in Climates, ready \in BOOLEAN :
        /\ tp = NewSatellite(TheTransponder(b[1]), TheCarrier(b[2])).tp
        /\ \E w0 \in {NewWorld(TheTransponder(b[1]), TheCarrier(b[2]),
                                StationA, climate)} :
              w = IF ready
                  THEN set_reception(set_grstation(w0, StationA).w).w
                  ELSE w0
        /\ last = NoCall
        /\ av = AvIdle
        /\ sh = ShIdle /\ mc = McIdle /\ db = DbIdle /\ web = WebIdle /\ calc = CalcIdle

AvStart ==
    /\ av.pc = "idle"
    /\ \E margin \in Margins, relaxation \in Relaxations :
          \E r \in {AvStartOf(Fresh, margin, relaxation)} :
             w' = r.w /\ av' = r.av
    /\ UNCHANGED <<tp, last, sh, mc, db, web, calc>>

\* One iteration: the body, then (unless it returned or failed) the boundary
\* handling with the values its random choices draw.
AvIterate ==
    /\ av.pc = "loop"
    /\ av.i < IterCap
    /\ \E c \in {AvIterationOf(Fresh, [av EXCEPT !.iters = av.iters + 1])} :
          \E lo \in IF c.av.pc = "loop" /\ c.av.p < PMin
                    THEN LowChoices ELSE {0},
             hi \in IF c.av.pc = "loop" /\ c.av.p > PMax
                    THEN HighChoices ELSE {0} :
             \E r \in {IF c.av.pc = "loop"
                       THEN AvBoundary(c.w, c.av, lo, hi) ELSE c} :
                w' = r.w /\ av' = r.av
    /\ UNCHANGED <<tp, last, sh, mc, db, web, calc>>

\* The sys.exit after the loop.
AvExhausted ==
    /\ av.pc = "loop"
    /\ av.i = IterCap
    /\ av' = AvEnd(av, "failed", "", None, UnreachableError)
    /\ UNCHANGED <<tp, w, last, sh, mc, db, web, calc>>

NextAvail == AvStart \/ AvIterate \/ AvExhausted

SpecAvail == InitAvail /\ [][NextAvail]_vars

-----------------------------------------------------------------------------
(* Two sessions built over one Transponder, one Carrier and one receiver   *)
(* object.  sh holds the three shared objects, each session's Satellite    *)
(* object (<<>> until it is constructed), and for each session the world   *)
(* it would be in had it been given a receiver object of its own and been  *)
(* called the same way.                                                    *)

Sessions == {1, 2}
\* The ground station each session's caller associates.
StationOf(i) == IF i = 1 THEN StationA ELSE StationB

InitShared ==
    \E b \in Bandwidths :
        /\ sh = [tp |-> TheTransponder(b[1]), ca |-> TheCarrier(b[2]),
                 rx |-> TheReception,
                 sat |-> [i \in Sessions |-> <<>>],
                 own |-> [i \in Sessions |-> <<>>],
                 last |-> [s |-> 0, op |-> "", ret |-> <<>>, err |-> "",
                           ownret |-> <<>>, ownerr |-> ""]]
        /\ tp = TheTransponder(b[1])
        /\ w = NewWorld(TheTransponder(b[1]), TheCarrier(b[2]), StationA, 1)
        /\ last = NoCall
        /\ av = AvIdle
        /\ mc = McIdle /\ db = DbIdle /\ web = WebIdle /\ calc = CalcIdle

\* The world session i runs in: its Satellite object and the shared objects.
SharedWorld(i) ==
    [sat |-> sh.sat[i][1], rx |-> sh.rx, ca |-> sh.ca, gs |-> StationOf(i),
     climate |-> 1, calls |-> <<>>]
OwnWorld(i) == [sh.own[i][1] EXCEPT !.calls = <<>>]

\* Satellite(position, transponder, carrier) for session i.
SharedConstruct(i) ==
    /\ sh.sat[i] = <<>>
    /\ \E n \in {NewSatellite(sh.tp, sh.ca)} :
          sh' = [sh EXCEPT !.tp = n.tp, !.ca = n.ca, !.sat[i] = <<n.sat>>,
                           !.own[i] = <<[sat |-> n.sat, rx |-> TheReception,
                                         ca |-> n.ca, gs |-> StationOf(i),
                                         climate |-> 1, calls |-> <<>>]>>,
                           !.last = [s |-> i, op |-> "Satellite",
                                     ret |-> <<>>, err |-> "",
                                     ownret |-> <<>>, ownerr |-> ""]]
    /\ UNCHANGED <<tp, w, last, av, mc, db, web, calc>>

\* A call of a method on session i: res is its outcome in the shared world,
\* own its outcome in the session's own world.
SharedCall(i, op, res, own) ==
    /\ \E r \in {res}, o \in {own} :
          sh' = [sh EXCEPT !.sat[i] = <<r.w.sat>>, !.rx = r.w.rx,
                           !.ca = r.w.ca, !.own[i] = <<o.w>>,
                           !.last = [s |-> i, op |-> op, ret |-> r.ret,
                                     err |-> r.err, ownret |-> o.ret,
                                     ownerr |-> o.err]]
    /\ UNCHANGED <<tp, w, last, av, mc, db, web, calc>>

SharedSetGrstation(i) ==
    /\ sh.sat[i] # <<>>
    /\ SharedCall(i, "set_grstation",
                  set_grstation(SharedWorld(i), StationOf(i)),
                  set_grstation(OwnWorld(i), StationOf(i)))
SharedSetReception(i) ==
    /\ sh.sat[i] # <<>>
    /\ SharedCall(i, "set_reception", set_reception(SharedWorld(i)),
                  set_reception(OwnWorld(i)))
SharedGetReceptionThreshold(i) ==
    /\ sh.sat[i] # <<>>
    /\ SharedCall(i, "get_reception_threshold",
                  get_reception_threshold(SharedWorld(i)),
                  get_reception_threshold(OwnWorld(i)))
SharedGetAntennaNoiseRain(i) ==
    /\ sh.sat[i] # <<>>
    /\ SharedCall(i, "get_antenna_noise_rain",
                  get_antenna_noise_rain(SharedWorld(i), None),
                  get_antenna_noise_rain(OwnWorld(i), None))
SharedGetTotalNoiseTemp(i) ==
    /\ sh.sat[i] # <<>>
    /\ SharedCall(i, "get_total_noise_temp",
                  get_total_noise_temp(SharedWorld(i), None),
                  get_total_noise_temp(OwnWorld(i), None))
SharedGetFigureOfMerit(i) ==
    /\ sh.sat[i] # <<>>
    /\ SharedCall(i, "get_figure_of_merit",
                  get_figure_of_merit(SharedWorld(i), None),
                  get_figure_of_merit(OwnWorld(i), None))
SharedGetCOverN0(i) ==
    /\ sh.sat[i] # <<>>
    /\ SharedCall(i, "get_c_over_n0", get_c_over_n0(SharedWorld(i), None),
                  get_c_over_n0(OwnWorld(i), None))
SharedGetSnr(i) ==
    /\ sh.sat[i] # <<>>
    /\ SharedCall(i, "get_snr", get_snr(SharedWorld(i), None),
                  get_snr(OwnWorld(i), None))

NextShared ==
    \E i \in Sessions :
        \/ SharedConstruct(i)
        \/ SharedSetGrstation(i)
        \/ SharedSetReception(i)
        \/ SharedGetReceptionThreshold(i)
        \/ SharedGetAntennaNoiseRain(i)
        \/ SharedGetTotalNoiseTemp(i)
        \/ SharedGetFigureOfMerit(i)
        \/ SharedGetCOverN0(i)
        \/ SharedGetSnr(i)

SpecShared == InitShared /\ [][NextShared]_vars

-----------------------------------------------------------------------------
(* The MODCOD-table lookups, each applied to a modulation and an FEC label: *)
(* get_modulation_params to the combined label, the carrier's lookups to a  *)
(* Carrier(modulation, 0.2, fec, 36).                                       *)

Modulations == {"QPSK", "8PSK", "16APSK", "BPSK", ""}
FecLabels ==
    {"", "1/2", "2/3", "3/4", "1/8", "2/0", "90/180", "120/180", "135/180",
     "2/3-L"}

InitModcod ==
    \E modulation \in Modulations, fec \in FecLabels :
        /\ mc = [pc |-> "ready", modulation |-> modulation, fec |-> fec,
                 ca |-> Carrier(modulation, 20, fec, Some(DefaultBandwidth)),
                 op |-> "", ret |-> <<>>, err |-> ""]
        /\ tp = TheTransponder(Some(DefaultBandwidth))
        /\ w = NewWorld(TheTransponder(Some(DefaultBandwidth)),
                        TheCarrier(Some(DefaultBandwidth)), StationA, 1)
        /\ last = NoCall
        /\ av = AvIdle
        /\ sh = ShIdle /\ db = DbIdle /\ web = WebIdle /\ calc = CalcIdle

ModcodGetModulationParams ==
    /\ \E r \in {get_modulation_params(mc.modulation, mc.fec)} :
          mc' = [mc EXCEPT !.pc = "done", !.op = "get_modulation_params",
                           !.ret = r.ret, !.err = r.err]
    /\ UNCHANGED <<tp, w, last, av, sh, db, web, calc>>

ModcodGetSnrThreshold ==
    /\ \E r \in {CarrierGetSnrThreshold(mc.ca)} :
          mc' = [mc EXCEPT !.pc = "done", !.op = "get_snr_threshold",
                           !.ca = r.ca, !.ret = r.ret, !.err = r.err]
    /\ UNCHANGED <<tp, w, last, av, sh, db, web, calc>>

ModcodGetBitrate ==
    /\ \E r \in {CarrierGetBitrate(mc.ca)} :
          mc' = [mc EXCEPT !.pc = "done", !.op = "get_bitrate",
                           !.ca = r.ca, !.ret = r.ret, !.err = r.err]
    /\ UNCHANGED <<tp, w, last, av, sh, db, web, calc>>

NextModcod ==
    \/ ModcodGetModulationParams
    \/ ModcodGetSnrThreshold
    \/ ModcodGetBitrate

SpecModcod == InitModcod /\ [][NextModcod]_vars

-----------------------------------------------------------------------------
(* The database manager with users: models/updated_db_manager.py over      *)
(* models/user_auth.py.  db holds the manager's current_user_id and        *)
(* session_token, the user_sessions table (a session is marked expired     *)
(* once the time has passed its expires_at), the item tables as one set of *)
(* rows, the AUTOINCREMENT counters, whether a login succeeded since the   *)
(* manager was created or logged out, and the last operation called.       *)

\* How many sessions are created and how many rows are inserted.
MaxLogins == 2
MaxRows == 2

\* hashlib.pbkdf2_hmac of the password with the salt.
hash_password(password, salt) == <<password, salt>>

\* The users table after the two register_user calls of the tests.
Users ==
    { [id |-> 1, username |-> "testuser1", email |-> "test1@example.com",
       password_hash |-> hash_password("password123", "salt1"),
       salt |-> "salt1"],
      [id |-> 2, username |-> "testuser2", email |-> "test2@example.com",
       password_hash |-> hash_password("password456", "salt2"),
       salt |-> "salt2"] }
UserIds == {u.id : u \in Users}
\* What login is called with.
LoginNames == {"testuser1", "test2@example.com", "nobody"}
Passwords == {"password123", "password456"}

\* The item tables; list_transponders and list_ground_stations build their
\* WHERE clause from a list of conditions, the other list_* methods choose
\* one of three queries.
Tables ==
    {"satellite_positions", "transponders", "carriers", "ground_stations",
     "reception_complex", "reception_simple", "link_calculations"}
ConditionTables == {"transponders", "ground_stations"}
\* The tables whose update_* method checks nothing.
FreeUpdateTables == Tables \ {"satellite_positions", "link_calculations"}
\* The **kwargs an update_* is called with, as <<field, value>> or <<>>.
Kwargs == {<<>>, <<"is_shared", TRUE>>, <<"is_shared", FALSE>>}
\* The tables one caller works with: a satellite's transponders are deleted
\* with the satellite, the other tables have no operation in common.
TableGroups ==
    {{"satellite_positions", "transponders"}, {"carriers"},
     {"ground_stations"}, {"reception_complex"}, {"reception_simple"},
     {"link_calculations"}}

DbOk(d, ret) == [d |-> d, ret |-> ret, err |-> ""]
DbRaise(d, e) == [d |-> d, ret |-> <<>>, err |-> e]

\* UserAuth.authenticate_user: the id of the user with that username or
\* email when the password's hash is the stored one, else None.
authenticate_user(username, password) ==
    Bind({u \in Users : u.username = username \/ u.email = username},
         LAMBDA row :
            IF row = {} THEN None
            ELSE Bind(CHOOSE u \in row : TRUE, LAMBDA u :
                    IF hash_password(password, u.salt) = u.password_hash
                    THEN Some(u.id) ELSE None))

\* UserAuth.create_session: a fresh token, inserted with the user.
create_session(d, user_id) ==
    DbOk([d EXCEPT !.sessions = @ \cup {[session_token |-> d.next_token,
                                         user_id |-> user_id,
                                         expired |-> FALSE]},
                   !.next_token = @ + 1],
         <<d.next_token>>)

\* UserAuth.validate_session: the user of the unexpired session with the
\* token, else None.
validate_session(d, session_token) ==
    Bind({x \in d.sessions : x.session_token = session_token /\ ~x.expired},
         LAMBDA row : IF row = {} THEN None
                      ELSE Some((CHOOSE x \in row : TRUE).user_id))

\* logout_user deleting no session.
logout_user_KeepsSession(d, session_token) == d

\* UserAuth.logout_user
logout_user(d, session_token) ==
    [d EXCEPT !.sessions = {x \in @ : x.session_token # session_token}]

\* login forgetting the current user and token when the credentials fail.
login_ResetsOnFailure(d, username, password) ==
    Bind(authenticate_user(username, password), LAMBDA user_id :
        IF user_id # None
        THEN Bind(create_session(d, Val(user_id)), LAMBDA c :
                DbOk([c.d EXCEPT !.current_user_id = user_id,
                                 !.session_token = Some(c.ret[1]),
                                 !.logged_in = TRUE],
                     <<TRUE>>))
        ELSE DbOk([d EXCEPT !.current_user_id = None,
                            !.session_token = None], <<FALSE>>))

\* SatLinkDatabaseUser.login
login(d, username, password) ==
    Bind(authenticate_user(username, password), LAMBDA user_id :
        IF user_id # None
        THEN Bind(create_session(d, Val(user_id)), LAMBDA c :
                DbOk([c.d EXCEPT !.current_user_id = user_id,
                                 !.session_token = Some(c.ret[1]),
                                 !.logged_in = TRUE],
                     <<TRUE>>))
        ELSE DbOk(d, <<FALSE>>))

\* logout keeping the current user.
logout_KeepsUser(d) ==
    DbOk([(IF d.session_token # None
           THEN [logout_user(d, Val(d.session_token))
                    EXCEPT !.session_token = None]
           ELSE d) EXCEPT !.logged_in = FALSE],
         <<>>)

\* SatLinkDatabaseUser.logout
logout(d) ==
    DbOk([(IF d.session_token # None
           THEN [logout_user(d, Val(d.session_token))
                    EXCEPT !.session_token = None]
           ELSE d) EXCEPT !.current_user_id = None, !.logged_in = FALSE],
         <<>>)

\* SatLinkDatabaseUser.validate_current_session
validate_current_session(d) ==
    IF d.session_token # None
    THEN Bind(validate_session(d, Val(d.session_token)), LAMBDA user_id :
            DbOk([d EXCEPT !.current_user_id = user_id],
                 <<user_id # None>>))
    ELSE DbOk(d, <<FALSE>>)

\* The add_* methods (add_satellite_position, add_transponder, add_carrier,
\* add_ground_station, add_reception_complex, add_reception_simple,
\* add_link_calculation): PermissionError without a current user, else the
\* INSERT with the current user as owner; add_link_calculation stores
\* is_shared = False whatever it is given, add_transponder takes the
\* satellite_id it is given.
AddRow(d, table, is_shared, satellite_id) ==
    IF d.current_user_id = None THEN DbRaise(d, "PermissionError")
    ELSE DbOk([d EXCEPT
                 !.rows = @ \cup
                    {[table |-> table, id |-> d.next_id[table],
                      user_id |-> Val(d.current_user_id),
                      is_shared |-> IF table = "link_calculations"
                                    THEN FALSE ELSE is_shared,
                      satellite_id |-> IF table = "transponders"
                                       THEN satellite_id ELSE None]},
                 !.next_id[table] = @ + 1],
              <<d.next_id[table]>>)

\* The list_* methods for the table, with the arguments user_id and
\* include_shared: the ids of the rows the query selects.
ListRows(d, table, user_arg, include_shared) ==
    Bind(IF user_arg = None THEN d.current_user_id ELSE user_arg,
         LAMBDA user_id :
    DbOk(d, <<{id \in 1..MaxRows :
        \E r \in d.rows :
            /\ r.table = table /\ r.id = id
            /\ IF user_id # None /\ include_shared
               THEN r.user_id = Val(user_id) \/ r.is_shared
               ELSE IF user_id # None THEN r.user_id = Val(user_id)
               ELSE IF table \in ConditionTables /\ ~include_shared THEN TRUE
               ELSE r.is_shared}>>))

\* The row of the table with the id, as a set.
RowOf(d, table, id) == {r \in d.rows : r.table = table /\ r.id = id}

\* UPDATE ... SET field = value WHERE id = ?: the rows after it.
UpdatedRows(d, table, id, kwargs) ==
    {IF r.table = table /\ r.id = id
     THEN [r EXCEPT ![kwargs[1]] = kwargs[2]]
     ELSE r : r \in d.rows}

\* update_satellite_position asking for a login and an existing row only.
update_satellite_position_AnyUser(d, sat_id, kwargs) ==
    IF d.current_user_id = None THEN DbRaise(d, "PermissionError")
    ELSE IF RowOf(d, "satellite_positions", sat_id) = {}
    THEN DbRaise(d, "PermissionError")
    ELSE IF kwargs = <<>> THEN DbOk(d, <<FALSE>>)
    ELSE DbOk([d EXCEPT !.rows = UpdatedRows(d, "satellite_positions",
                                             sat_id, kwargs)],
              <<TRUE>>)

\* SatLinkDatabaseUser.update_satellite_position (make_satellite_public and
\* make_satellite_private call it with is_shared).
update_satellite_position(d, sat_id, kwargs) ==
    IF d.current_user_id = None THEN DbRaise(d, "PermissionError")
    ELSE Bind(RowOf(d, "satellite_positions", sat_id), LAMBDA result :
        IF result = {}
           \/ (CHOOSE r \in result : TRUE).user_id # Val(d.current_user_id)
        THEN DbRaise(d, "PermissionError")
        ELSE IF kwargs = <<>> THEN DbOk(d, <<FALSE>>)
        ELSE DbOk([d EXCEPT !.rows = UpdatedRows(d, "satellite_positions",
                                                 sat_id, kwargs)],
                  <<TRUE>>))

\* SatLinkDatabaseUser.delete_satellite_position: the satellite's
\* transponders are deleted with it.
delete_satellite_position(d, sat_id) ==
    IF d.current_user_id = None THEN DbRaise(d, "PermissionError")
    ELSE Bind(RowOf(d, "satellite_positions", sat_id), LAMBDA result :
        IF result = {}
           \/ (CHOOSE r \in result : TRUE).user_id # Val(d.current_user_id)
        THEN DbRaise(d, "PermissionError")
        ELSE DbOk([d EXCEPT !.rows =
                     {r \in @ :
                        /\ ~(r.table = "transponders"
                             /\ r.satellite_id = Some(sat_id))
                        /\ ~(r.table = "satellite_positions"
                             /\ r.id = sat_id)}],
                  <<TRUE>>))

\* update_transponder, update_carrier, update_ground_station,
\* update_reception_complex and update_reception_simple (the make_*_public
\* and make_*_private of these tables call them with is_shared): no check
\* of the caller; False without fields, else whether a row was updated.
UpdateRow(d, table, id, kwargs) ==
    IF kwargs = <<>> THEN DbOk(d, <<FALSE>>)
    ELSE DbOk([d EXCEPT !.rows = UpdatedRows(d, table, id, kwargs)],
              <<RowOf(d, table, id) # {}>>)

\* SatLinkDatabaseUser.make_link_public
make_link_public(d, calc_id) ==
    IF d.current_user_id = None THEN DbRaise(d, "PermissionError")
    ELSE Bind(RowOf(d, "link_calculations", calc_id), LAMBDA result :
        IF result = {}
           \/ (CHOOSE r \in result : TRUE).user_id # Val(d.current_user_id)
        THEN DbRaise(d, "PermissionError")
        ELSE DbOk([d EXCEPT !.rows = UpdatedRows(d, "link_calculations",
                                calc_id, <<"is_shared", TRUE>>)],
                  <<TRUE>>))

\* No operation called yet.
DbNoCall ==
    [op |-> "", table |-> "", id |-> 0, user |-> None, cred |-> <<>>,
     ret |-> <<>>, err |-> ""]

InitDb ==
    /\ \E group \in TableGroups :
          db = [current_user_id |-> None, session_token |-> None,
                sessions |-> {}, next_token |-> 1, rows |-> {},
                next_id |-> [t \in Tables |-> 1], logged_in |-> FALSE,
                group |-> group, last |-> DbNoCall]
    /\ tp = TheTransponder(Some(DefaultBandwidth))
    /\ w = NewWorld(TheTransponder(Some(DefaultBandwidth)),
                    TheCarrier(Some(DefaultBandwidth)), StationA, 1)
    /\ last = NoCall
    /\ av = AvIdle
    /\ sh = ShIdle /\ mc = McIdle /\ web = WebIdle /\ calc = CalcIdle

\* A call of a method of the manager: its outcome res, recorded with the
\* table and row id it was about, the user a listing was made for and the
\* <<username, password>> of a login.
DbCall(op, table, id, user, cred, res) ==
    /\ \E r \in {res} :
          db' = [r.d EXCEPT !.last = [op |-> op, table |-> table, id |-> id,
                                      user |-> user, cred |-> cred,
                                      ret |-> r.ret, err |-> r.err]]
    /\ UNCHANGED <<tp, w, last, av, sh, mc, web, calc>>

DbLogin ==
    \E username \in LoginNames, password \in Passwords :
        /\ authenticate_user(username, password) # None
           => db.next_token <= MaxLogins
        /\ DbCall("login", "", 0, None, <<username, password>>,
                  login(db, username, password))
DbLogout == DbCall("logout", "", 0, None, <<>>, logout(db))
DbValidateCurrentSession ==
    DbCall("validate_current_session", "", 0, None, <<>>,
           validate_current_session(db))
\* The time passes the expires_at of a session.
DbExpire ==
    /\ \E x \in db.sessions :
          /\ ~x.expired
          /\ db' = [db EXCEPT !.sessions = (@ \ {x})
                                  \cup {[x EXCEPT !.expired = TRUE]},
                              !.last = [DbNoCall EXCEPT !.op = "expire"]]
    /\ UNCHANGED <<tp, w, last, av, sh, mc, web, calc>>
DbAdd ==
    \E table \in db.group, is_shared \in BOOLEAN,
       satellite_id \in {None} \cup
           {Some(r.id) : r \in {x \in db.rows :
                                  x.table = "satellite_positions"}} :
        /\ Cardinality(db.rows) < MaxRows
        /\ db.next_id[table] <= MaxRows
        /\ table # "transponders" => satellite_id = None
        /\ DbCall("add", table, 0, None, <<>>,
                  AddRow(db, table, is_shared, satellite_id))
DbList ==
    \E table \in db.group, user_arg \in {None} \cup {Some(u) : u \in UserIds},
       include_shared \in BOOLEAN :
        DbCall("list", table, 0,
               IF user_arg = None THEN db.current_user_id ELSE user_arg, <<>>,
               ListRows(db, table, user_arg, include_shared))
DbUpdateSatellitePosition ==
    /\ "satellite_positions" \in db.group
    /\ \E sat_id \in 1..MaxRows, kwargs \in Kwargs :
        DbCall("update_satellite_position", "satellite_positions", sat_id,
               None, <<>>, update_satellite_position(db, sat_id, kwargs))
DbDeleteSatellitePosition ==
    /\ "satellite_positions" \in db.group
    /\ \E sat_id \in 1..MaxRows :
        DbCall("delete_satellite_position", "satellite_positions", sat_id,
               None, <<>>, delete_satellite_position(db, sat_id))
DbUpdate ==
    \E table \in FreeUpdateTables \cap db.group, id \in 1..MaxRows, kwargs \in Kwargs :
        DbCall("update", table, id, None, <<>>,
               UpdateRow(db, table, id, kwargs))
DbMakeLinkPublic ==
    /\ "link_calculations" \in db.group
    /\ \E calc_id \in 1..MaxRows :
        DbCall("make_link_public", "link_calculations", calc_id, None,
               <<>>, make_link_public(db, calc_id))

NextDb ==
    \/ DbLogin
    \/ DbLogout
    \/ DbValidateCurrentSession
    \/ DbExpire
    \/ DbAdd
    \/ DbList
    \/ DbUpdateSatellitePosition
    \/ DbDeleteSatellitePosition
    \/ DbUpdate
    \/ DbMakeLinkPublic

SpecDb == InitDb /\ [][NextDb]_vars

-----------------------------------------------------------------------------
(* The web application: one SatLinkDatabaseUser, the global db of         *)
(* web_app.py, serves the requests of every client; a client's Flask      *)
(* session holds its username and user_id. Requests run on the threads of *)
(* the server, so the statements of different requests interleave: a      *)
(* request is at "login" between db.login and the writing of its session, *)
(* and at "handler" between login_required and the body of its handler.   *)

Clients == {1, 2}

\* session.clear(), and the session after a login.
NoSession == [username |-> None, user_id |-> None]

\* SatLinkDatabaseUser(db_path) as init_db creates it.
NewManager ==
    [current_user_id |-> None, session_token |-> None, sessions |-> {},
     next_token |-> 1, rows |-> {}, next_id |-> [t \in Tables |-> 1],
     logged_in |-> FALSE]

\* No handler has acted on user-owned data yet.
WebNoAct == [op |-> "", client |-> 0, as |-> None, own |-> None, err |-> ""]

InitWeb ==
    /\ web = [db |-> NewManager,
              session |-> [c \in Clients |-> NoSession],
              pc |-> [c \in Clients |-> "idle"],
              pending |-> [c \in Clients |-> ""],
              last |-> WebNoAct]
    /\ tp = TheTransponder(Some(DefaultBandwidth))
    /\ w = NewWorld(TheTransponder(Some(DefaultBandwidth)),
                    TheCarrier(Some(DefaultBandwidth)), StationA, 1)
    /\ last = NoCall
    /\ av = AvIdle
    /\ sh = ShIdle /\ mc = McIdle /\ db = DbIdle /\ calc = CalcIdle

\* A handler acting on user-owned data for client c: the user the manager
\* acts as and the user_id of the client's session.
WebAct(op, c, err) ==
    [op |-> op, client |-> c, as |-> web.db.current_user_id,
     own |-> web.session[c].user_id, err |-> err]

\* POST /login up to the return of db.login(username, password).
WebLoginCall(c) ==
    /\ web.pc[c] = "idle"
    /\ \E username \in LoginNames, password \in Passwords :
          /\ authenticate_user(username, password) # None
             => web.db.next_token <= MaxLogins
          /\ \E r \in {login(web.db, username, password)} :
                web' = [web EXCEPT
                          !.db = r.d,
                          !.pc[c] = IF r.ret = <<TRUE>> THEN "login"
                                    ELSE "idle",
                          !.pending[c] = IF r.ret = <<TRUE>> THEN username
                                         ELSE ""]
    /\ UNCHANGED <<tp, w, last, av, sh, mc, db, calc>>

\* The rest of a successful POST /login: session['username'] = username,
\* session['user_id'] = db.current_user_id.
WebLoginStore(c) ==
    /\ web.pc[c] = "login"
    /\ web' = [web EXCEPT
                 !.session[c] = [username |-> Some(web.pending[c]),
                                 user_id |-> web.db.current_user_id],
                 !.pc[c] = "idle", !.pending[c] = ""]
    /\ UNCHANGED <<tp, w, last, av, sh, mc, db, calc>>

\* GET /logout: db.logout() when the session has a username, then
\* session.clear().
WebLogout(c) ==
    /\ web.pc[c] = "idle"
    /\ web' = [web EXCEPT
                 !.db = IF web.session[c].username # None
                        THEN logout(web.db).d ELSE @,
                 !.session[c] = NoSession]
    /\ UNCHANGED <<tp, w, last, av, sh, mc, db, calc>>

\* login_required on a request of client c whose session has a username:
\* the manager's current user is set from the session and the session
\* token dropped, when the session has both username and user_id.
WebLoginRequired(c) ==
    /\ web.pc[c] = "idle"
    /\ web.session[c].username # None
    /\ web' = [web EXCEPT
                 !.db = IF web.session[c].user_id # None
                        THEN [@ EXCEPT
                                !.current_user_id = web.session[c].user_id,
                                !.session_token = None]
                        ELSE @,
                 !.pc[c] = "handler"]
    /\ UNCHANGED <<tp, w, last, av, sh, mc, db, calc>>

\* The body of dashboard, after login_required: the listings it makes with
\* user_id = db.current_user_id.
WebDashboard(c) ==
    /\ web.pc[c] = "handler"
    /\ web' = [web EXCEPT !.pc[c] = "idle",
                          !.last = WebAct("dashboard", c, "")]
    /\ UNCHANGED <<tp, w, last, av, sh, mc, db, calc>>

\* POST /manage/satellites/add of the user_management blueprint, sent by a
\* logged-in client: the route has no login_required, and
\* db.add_satellite_position stores the row for the manager's current user.
WebAddSatellite(c) ==
    /\ web.pc[c] = "idle"
    /\ web.session[c].username # None
    /\ Cardinality(web.db.rows) < MaxRows
    /\ web.db.next_id["satellite_positions"] <= MaxRows
    /\ \E is_shared \in BOOLEAN :
          \E r \in {AddRow(web.db, "satellite_positions", is_shared, None)} :
             web' = [web EXCEPT !.db = r.d,
                                !.last = WebAct("add_satellite", c, r.err)]
    /\ UNCHANGED <<tp, w, last, av, sh, mc, db, calc>>

\* POST /manage/satellites/<sat_id>/delete of the blueprint, sent by a
\* logged-in client.
WebDeleteSatellite(c) ==
    /\ web.pc[c] = "idle"
    /\ web.session[c].username # None
    /\ \E sat_id \in 1..MaxRows :
          \E r \in {delete_satellite_position(web.db, sat_id)} :
             web' = [web EXCEPT !.db = r.d,
                                !.last = WebAct("delete_satellite", c, r.err)]
    /\ UNCHANGED <<tp, w, last, av, sh, mc, db, calc>>

NextWeb ==
    \E c \in Clients :
        \/ WebLoginCall(c)
        \/ WebLoginStore(c)
        \/ WebLogout(c)
        \/ WebLoginRequired(c)
        \/ WebDashboard(c)
        \/ WebAddSatellite(c)
        \/ WebDeleteSatellite(c)

SpecWeb == InitWeb /\ [][NextWeb]_vars

-----------------------------------------------------------------------------
(* POST /api/calculate_link: one request of a logged-in client, after     *)
(* login_required has set the manager's current user. The arithmetic of   *)
(* the calculation is not modelled, only whether it raises.               *)

\* The tables the request's components are looked up in.
ComponentTables ==
    {"satellite_positions", "transponders", "carriers", "ground_stations",
     "reception_complex", "reception_simple"}

\* The JSON bodies: each id is missing or 1 (_to_int), reception_type is
\* missing, 'simple' or 'complex'; NoBody is a request without JSON.
NoBody == <<>>
Requests ==
    [satellite_id : {None, Some(1)}, transponder_id : {None, Some(1)},
     carrier_id : {None, Some(1)}, ground_station_id : {None, Some(1)},
     reception_type : {"", "simple", "complex"},
     reception_id : {None, Some(1)}]

\* The results of the except branch of the calculation: every field 0.
ZeroResults == "zeros"
ComputedResults == "computed"

\* The ids db.list_*() of the table returns for the current user.
Listed(d, table) == ListRows(d, table, None, TRUE).ret[1]

\* The part of api_calculate_link that loads the satellites: without any
\* listed satellite a shared default satellite is added for the current
\* user (or user 1) and the manager's current user is set to None.
LoadSatellites(d) ==
    IF Listed(d, "satellite_positions") # {} THEN d
    ELSE [AddRow([d EXCEPT !.current_user_id =
                              IF @ # None THEN @ ELSE Some(1)],
                 "satellite_positions", TRUE, None).d
          EXCEPT !.current_user_id = None]

\* Whether the component with the id is among the rows listed.
Found(d, table, id) == id # None /\ Val(id) \in Listed(d, table)

\* api_calculate_link for the body data on the manager d; raises tells
\* whether the arithmetic of the calculation raises. The outcome: the
\* manager, the response, whether every component was resolved, and the
\* results handed to add_link_calculation.
api_calculate_link(d, data, raises) ==
    IF data = NoBody
    THEN [d |-> d, success |-> FALSE, calculation_id |-> None,
          resolved |-> FALSE, results |-> ""]
    ELSE LET d1 == LoadSatellites(d)
             resolved ==
                 /\ Found(d1, "satellite_positions", data.satellite_id)
                 /\ Found(d1, "transponders", data.transponder_id)
                 /\ Found(d1, "carriers", data.carrier_id)
                 /\ Found(d1, "ground_stations", data.ground_station_id)
                 /\ data.reception_type # ""
                 /\ Found(d1, IF data.reception_type = "complex"
                              THEN "reception_complex"
                              ELSE "reception_simple", data.reception_id)
             results == IF resolved /\ ~raises THEN ComputedResults
                        ELSE ZeroResults
             saved == AddRow(d1, "link_calculations", FALSE, None)
         IN  [d |-> saved.d, success |-> TRUE,
              calculation_id |-> IF saved.err = "" THEN saved.ret ELSE None,
              resolved |-> resolved, results |-> results]

\* The manager when the request arrives: the current user is the client's
\* user, who owns one private row in each of the tables of have.
CalcManager(u, have) ==
    [NewManager EXCEPT
       !.current_user_id = Some(u),
       !.rows = {[table |-> t, id |-> 1, user_id |-> u, is_shared |-> FALSE,
                  satellite_id |-> IF t = "transponders" THEN Some(1)
                                   ELSE None] : t \in have},
       !.next_id = [t \in Tables |-> IF t \in have THEN 2 ELSE 1]]

InitCalc ==
    /\ \E u \in UserIds, have \in SUBSET ComponentTables :
          calc = [pc |-> "request", db |-> CalcManager(u, have)]
    /\ tp = TheTransponder(Some(DefaultBandwidth))
    /\ w = NewWorld(TheTransponder(Some(DefaultBandwidth)),
                    TheCarrier(Some(DefaultBandwidth)), StationA, 1)
    /\ last = NoCall
    /\ av = AvIdle
    /\ sh = ShIdle /\ mc = McIdle /\ db = DbIdle /\ web = WebIdle

\* The request is handled.
CalcRequest ==
    /\ calc.pc = "request"
    /\ \E data \in Requests \cup {NoBody}, raises \in BOOLEAN :
          \E r \in {api_calculate_link(calc.db, data, raises)} :
             calc' = [pc |-> "done", db |-> r.d, data |-> data,
                      raises |-> raises, success |-> r.success,
                      calculation_id |-> r.calculation_id,
                      resolved |-> r.resolved, results |-> r.results]
    /\ UNCHANGED <<tp, w, last, av, sh, mc, db, web>>

NextCalc == CalcRequest

SpecCalc == InitCalc /\ [][NextCalc]_vars

-----------------------------------------------------------------------------
(* Properties                                                              *)

\* The session has a ground station and a receiver.
Configured(w0) == w0.sat.grstation # None /\ w0.sat.reception # None

\* The getters that take a probability.
PGetters ==
    {"get_link_attenuation", "get_cross_pol_discrimination",
     "get_power_flux_density", "get_antenna_noise_rain",
     "get_total_noise_temp", "get_figure_of_merit", "get_c_over_n0",
     "get_snr"}

\* The cached fields that depend on the attenuation.
Downstream ==
    {"power_flux_density", "antenna_noise_rain", "total_noise_temp",
     "figure_of_merit", "c_over_n0", "snr", "cross_pol_discrimination"}

\* The session with nothing cached for any probability.
Cleared(w0) ==
    [w0 EXCEPT !.calls = <<>>,
               !.sat.a_g = None, !.sat.a_c = None, !.sat.a_r = None,
               !.sat.a_s = None, !.sat.a_t = None, !.sat.a_fs = None,
               !.sat.a_tot = None,
               !.sat.power_flux_density = None,
               !.sat.antenna_noise_rain = None,
               !.sat.total_noise_temp = None,
               !.sat.figure_of_merit = None,
               !.sat.c_over_n0 = None,
               !.sat.snr = None,
               !.sat.cross_pol_discrimination = None]

\* The getter named op, applied.
CallOf(op, w0, parg) ==
    CASE op = "get_link_attenuation" -> get_link_attenuation(w0, parg)
      [] op = "get_cross_pol_discrimination" ->
            get_cross_pol_discrimination(w0, parg)
      [] op = "get_power_flux_density" -> get_power_flux_density(w0, parg)
      [] op = "get_antenna_noise_rain" -> get_antenna_noise_rain(w0, parg)
      [] op = "get_total_noise_temp" -> get_total_noise_temp(w0, parg)
      [] op = "get_figure_of_merit" -> get_figure_of_merit(w0, parg)
      [] op = "get_c_over_n0" -> get_c_over_n0(w0, parg)
      [] OTHER -> get_snr(w0, parg)

\* The SNR of the link at probability q, derived with nothing cached.
SnrAt(w0, q) == get_snr(Cleared(w0), Some(q))

\* C1: on a session with ground station and receiver that holds values
\* cached for p_old, a probability-taking getter called with p # p_old
\* returns what is derived for p with nothing cached, leaves p as the cached
\* probability, and leaves no downstream field with a value other than the
\* one derived for p.
DifferentPInvalidates ==
    [][(/\ Configured(w)
        /\ w.sat.p # None
        /\ last'.op \in PGetters
        /\ last'.p # None
        /\ last'.p # w.sat.p)
       => \E d \in {CallOf(last'.op, Cleared(w), last'.p)} :
             /\ last'.err = d.err
             /\ last'.ret = d.ret
             /\ w'.sat.p = last'.p
             /\ \A f \in Downstream :
                   w'.sat[f] = None \/ w'.sat[f] = d.w.sat[f]]_vars

\* The iterative search has returned a value.
SearchReturned == av.pc = "done" /\ av.iters > 0

\* |SNR(p) - (SNR_threshold + margin)| at the p the search ended with.
FinalDistance ==
    Abs(FSub(SnrAt(w, av.p).ret[1], Val(w.sat.snr_threshold) + av.margin))

\* C2 as stated: a value returned through the iterative search is 100 - p
\* (cut to three decimals) for a p with |SNR(p) - (SNR_threshold + margin)|
\* < relaxation.
SearchReturnsWithinRelaxation ==
    SearchReturned =>
        /\ av.result = Some(truncate3(1000000000 - av.p))
        /\ FinalDistance < av.relaxation

\* C2 amended: a value returned through the iterative search is 100 - p
\* (cut to three decimals) for a p with |SNR(p) - (SNR_threshold + margin)|
\* < relaxation, or for a p where that distance exceeds the previous
\* iteration's while |p_old - p| < 0.001 and speed_old * speed < 1.
SearchReturnsWithinRelaxationOrStalled ==
    SearchReturned =>
        /\ av.result = Some(truncate3(1000000000 - av.p))
        /\ \/ FinalDistance < av.relaxation
           \/ /\ av.delta_old < FinalDistance
              /\ Abs(av.p_old - av.p) < StallStep
              /\ ProductBelowOne(av.speed_old, av.speed)

\* C2 witness: the search returned by each of its two criteria's first one,
\* after more than one iteration.
SearchConverged ==
    SearchReturned /\ av.iters > 1 /\ FinalDistance < av.relaxation

\* C3: when SNR(0.001) >= SNR_threshold + margin, get_availability has
\* returned 99.999 with no iteration begun and get_snr called only at 0.001.
FastPathReturns ==
    (/\ av.pc # "idle"
     /\ w.sat.snr_threshold # None
     /\ \E s \in {SnrAt(w, P001)} :
           /\ s.err = ""
           /\ s.ret[1] >= Val(w.sat.snr_threshold) + av.margin)
    => /\ av.pc = "done"
       /\ av.result = Some(FastAvailability)
       /\ av.iters = 0
       /\ av.evals = <<P001>>
       /\ w.calls = <<Some(P001)>>

\* C3 witness: the fast path taken by a link whose SNR is finite.
FastPathTaken ==
    /\ av.pc = "done"
    /\ av.iters = 0
    /\ w.sat.snr # None
    /\ Val(w.sat.snr) < Inf
    /\ Val(w.sat.snr) >= Val(w.sat.snr_threshold) + av.margin

\* The iterations of for i in range(1, IterCap).
Iterations == IterCap - 1

\* C4 as stated: the search fails as unreachable exactly when IterCap
\* (5000) iterations have elapsed.
FailsAfterIterCapIterations ==
    (av.pc = "failed" /\ av.err = UnreachableError) => av.iters = IterCap

\* C4 amended: get_availability always ends, the search being bounded to
\* IterCap - 1 (4999) iterations: it never begins more than that many, every
\* step of it ends the call or begins the next iteration, a call that
\* fails as unreachable has run IterCap - 1 iterations and returns nothing,
\* and after IterCap - 1 iterations without a return the next step fails as
\* unreachable.
TerminatesWithinIterations ==
    /\ [](av.pc # "idle" => av.iters <= Iterations)
    /\ []((av.pc = "failed" /\ av.err = UnreachableError)
            => (av.iters = Iterations /\ av.result = None))
    /\ [][av.pc = "loop" =>
            \/ av'.pc \in {"done", "failed"}
            \/ av'.pc = "loop" /\ av'.iters = av.iters + 1]_vars
    /\ [][(av.pc = "loop" /\ av.iters = Iterations) =>
            (av'.pc = "failed" /\ av'.err = UnreachableError)]_vars

\* C4 witness: a search that ran out of iterations.
SearchExhausted ==
    av.pc = "failed" /\ av.err = UnreachableError /\ av.iters = Iterations

\* C5: on a session with ground station and receiver, a getter called with
\* a given p right after the same getter with the same p returns what that
\* call returned, without a call of the atmospheric model.
SameCallSameValue ==
    [][(/\ Configured(w)
        /\ last'.op \in PGetters
        /\ last'.rel = "same"
        /\ last'.p # None
        /\ last.err = "")
       => /\ last'.err = ""
          /\ last'.ret = last.ret
          /\ w'.calls = <<>>]_vars

\* C6: get_snr(p2) right after a get_snr(p1) that returned, p2 # p1, calls
\* the atmospheric model, with p2 only, and leaves the session and the
\* result as get_snr(p2) derives them with nothing cached.
SnrRecomputedForNewP ==
    [][(/\ last'.op = "get_snr"
        /\ last'.rel = "other"
        /\ last.err = "")
       => /\ w'.calls # <<>>
          /\ \A k \in DOMAIN w'.calls : w'.calls[k] = last'.p
          /\ \E d \in {get_snr(Cleared(w), last'.p)} :
                /\ last'.err = d.err
                /\ last'.ret = d.ret
                /\ w'.sat = d.w.sat
                /\ w'.rx = d.w.rx]_vars

\* C6 witness: a get_snr(p2) that followed a get_snr(p1), p2 # p1, and
\* returned a finite SNR.
SnrCalledWithNewP ==
    /\ last.op = "get_snr"
    /\ last.rel = "other"
    /\ last.err = ""
    /\ last.ret[1] < Inf
    /\ w.calls = <<last.p>>

\* C7: a get_link_attenuation(p) that returned called the atmospheric model
\* with p only, returned the attenuation derived for p, and left p as the
\* session's cached probability.
LinkAttenuationUsesGivenP ==
    (last.op = "get_link_attenuation" /\ last.err = "")
    => /\ \A k \in DOMAIN w.calls : w.calls[k] = last.p
       /\ w.sat.p = last.p
       /\ last.ret = ComputeLinkAttenuation(Cleared(w), last.p).ret

\* C8: with the simplified receiver, the figure of merit the session
\* returns is the receiver's G/T, and the C/N0 it returns is
\* eirp - a_tot + G/T + 228.6.
FigureOfMeritIsSuppliedGT ==
    /\ (last.op = "get_figure_of_merit" /\ last.err = "")
       => last.ret = <<RxGetFigureOfMerit(w.rx)>>
    /\ (last.op = "get_c_over_n0" /\ last.err = "")
       => last.ret = <<w.sat.eirp - Val(w.sat.a_tot)
                       + RxGetFigureOfMerit(w.rx) + 2286>>

\* C9: get_snr does not fail on the bandwidth, and the SNR it returns is
\* C/N0 - 10 log10 of the carrier's bandwidth as calculate_eirp left it
\* (36 MHz for a zero or unset one).
SnrUsesDefaultBandwidth ==
    last.op = "get_snr"
    => /\ last.err # "TypeError"
       /\ last.err = "" =>
             last.ret = <<Val(w.sat.c_over_n0)
                          - BandwidthDb(w.ca.b_util).ret>>

\* C10: the geometry getters on a session without ground station, and the
\* attenuation, noise and SNR getters on a session without ground station
\* or receiver, raise the configuration error, return nothing and leave the
\* session's fields as they were.
UnconfiguredCallFails ==
    [][(\/ /\ w.sat.grstation = None
           /\ last'.op \in {"get_elevation", "get_azimuth", "get_distance"}
        \/ /\ ~Configured(w)
           /\ last'.op \in {"get_link_attenuation", "get_antenna_noise_rain",
                            "get_total_noise_temp", "get_figure_of_merit",
                            "get_c_over_n0", "get_snr"})
       => /\ last'.err = ConfigError
          /\ last'.ret = <<>>
          /\ w'.sat = w.sat]_vars

\* The total atmospheric attenuation the atmospheric model gives the session
\* w0 for probability q.
AtmosphericTotalAt(w0, q) ==
    AtmosphericAttenuation(w0.climate, Val(w0.sat.grstation), w0.sat.freq,
        ElevationOf(Val(w0.sat.grstation)), q,
        IF w0.rx.ant_size # None THEN Val(w0.rx.ant_size) ELSE 10).a_t

CrossPolYieldsThreeOutputs ==
    (last.op = "get_cross_pol_discrimination" /\ last.err = "")
    => last.ret = <<Val(w.sat.cross_pol_discrimination), Val(w.sat.a_co),
                    Val(w.sat.a_x)>>


\* The defining fields of a Transponder and a Carrier.
DefiningFields(tp0, ca0) ==
    <<tp0.freq, tp0.eirp_max, tp0.b_transp, tp0.back_off, tp0.contorno,
      ca0.b_util, ca0.modulation, ca0.fec, ca0.roll_off>>

\* C11: constructing a session from the shared Transponder and Carrier, or
\* calling an operation of a session, leaves every defining field of the
\* two components as it was.
ComponentsKeepDefiningFields ==
    [][DefiningFields(sh'.tp, sh'.ca) = DefiningFields(sh.tp, sh.ca)]_vars

\* C12: what a call on a session over the shared receiver returns or raises
\* is what the same call returns or raises on that session with a receiver
\* of its own, that is, it depends on that session's ground station and
\* frequency only.
SharedReceiverSessionsIndependent ==
    /\ sh.last.ret = sh.last.ownret
    /\ sh.last.err = sh.last.ownerr


\* The first table row with the given modulation and FEC label.
ExactRow(modulation, fec) ==
    FirstRow(LAMBDA r : r.modulation = modulation /\ r.fec = fec)

\* The label g is the rate of the label f in the table's /180 form.
SameRateOver180(f, g) ==
    /\ FecSplit(f) # <<>> /\ FecSplit(g) # <<>>
    /\ FecSplit(f)[2] # 0 /\ FecSplit(g)[2] = 180
    /\ FecSplit(f)[1] * 180 = FecSplit(g)[1] * FecSplit(f)[2]

\* The first table row with the given modulation whose FEC is the rate of
\* the label fec in the /180 form.
RescaledRow(modulation, fec) ==
    FirstRow(LAMBDA r : r.modulation = modulation
                        /\ SameRateOver180(fec, r.fec))

\* What a lookup yields for a table row.
LookupOf(op, row) ==
    CASE op = "get_modulation_params" -> <<ParamsOf(row)>>
      [] op = "get_snr_threshold" -> <<row.c_over_n>>
      [] OTHER -> <<DefaultBandwidth * row.inforate>>

\* C15: a lookup for a modulation and an FEC label yields the table row with
\* exactly that modulation and FEC when there is one, and else, when the
\* table has a row of the modulation whose FEC is the label's rate in the
\* /180 form, that row.
LookupResolvesShortFec ==
    mc.pc = "done"
    => /\ ExactRow(mc.modulation, mc.fec) # <<>>
          => /\ mc.err = ""
             /\ mc.ret = LookupOf(mc.op, ExactRow(mc.modulation, mc.fec)[1])
       /\ (/\ ExactRow(mc.modulation, mc.fec) = <<>>
           /\ RescaledRow(mc.modulation, mc.fec) # <<>>)
          => /\ mc.err = ""
             /\ mc.ret = LookupOf(mc.op,
                                  RescaledRow(mc.modulation, mc.fec)[1])


\* C16: a listing of a table contains a row only if the user the listing
\* was made for (the user_id given, else the current user, if any) owns the
\* row or the row is shared.
ListingShowsOwnedOrShared ==
    db.last.op = "list"
    => \A id \in db.last.ret[1] :
          \A r \in RowOf(db, db.last.table, id) :
             \/ r.is_shared
             \/ db.last.user # None /\ r.user_id = Val(db.last.user)

\* C17: update_satellite_position and delete_satellite_position return only
\* when the current user owns the satellite, and called by a logged-in user
\* on a satellite of another user they raise PermissionError and leave
\* every row, sharing flags included, as it was.
OnlyOwnerChangesSatellite ==
    [][db'.last.op \in {"update_satellite_position",
                        "delete_satellite_position"}
       => /\ db'.last.err = ""
             => \E r \in RowOf(db, "satellite_positions", db'.last.id) :
                   db.current_user_id = Some(r.user_id)
          /\ \A r \in RowOf(db, "satellite_positions", db'.last.id) :
                (db.current_user_id # None
                 /\ db.current_user_id # Some(r.user_id))
                => /\ db'.last.err = "PermissionError"
                   /\ db'.rows = db.rows]_vars

\* C17 witness: a logged-in user called update_satellite_position on a
\* satellite of another user.
SatelliteUpdateDenied ==
    /\ db.last.op = "update_satellite_position"
    /\ db.last.err = "PermissionError"
    /\ db.current_user_id # None
    /\ \E r \in RowOf(db, "satellite_positions", db.last.id) :
          db.current_user_id # Some(r.user_id)

\* C18: an add_* called while no login has succeeded since the manager was
\* created or logged out raises PermissionError and inserts no row.
AddWithoutLoginFails ==
    [][(~db.logged_in /\ db'.last.op = "add")
       => /\ db'.last.err = "PermissionError"
          /\ db'.rows = db.rows
          /\ db'.next_id = db.next_id]_vars

\* C18 witness: an add_* was refused after a login and a logout.
AddRefusedAfterLogout ==
    /\ db.last.op = "add"
    /\ db.last.err = "PermissionError"
    /\ ~db.logged_in
    /\ db.next_token > 1

\* The credentials of the registered users.
Credentials ==
    {<<"testuser1", "password123">>, <<"test1@example.com", "password123">>,
     <<"testuser2", "password456">>, <<"test2@example.com", "password456">>}

\* C19: a login with a wrong password or an unknown user returns False,
\* leaves the sessions table, the current user and the session token as
\* they were, and every token validates as it did before.
FailedLoginChangesNothing ==
    [][(db'.last.op = "login" /\ db'.last.cred \notin Credentials)
       => /\ db'.last.ret = <<FALSE>>
          /\ db'.sessions = db.sessions
          /\ db'.current_user_id = db.current_user_id
          /\ db'.session_token = db.session_token
          /\ \A t \in 1..MaxLogins :
                validate_session(db', t) = validate_session(db, t)]_vars

\* C19 witness: a login failed while the manager held a session that
\* validates.
LoginFailedWhileLoggedIn ==
    /\ db.last.op = "login"
    /\ db.last.ret = <<FALSE>>
    /\ db.session_token # None
    /\ validate_session(db, Val(db.session_token)) = db.current_user_id
    /\ db.current_user_id # None

\* C20: logout leaves the manager without current user and session token,
\* and the token the manager held does not validate any more.
LogoutEndsSession ==
    [][db'.last.op = "logout"
       => /\ db'.current_user_id = None
          /\ db'.session_token = None
          /\ db.session_token # None
             => validate_session(db', Val(db.session_token)) = None]_vars

\* C20 witness: a logout after a login, with the login's session gone.
LoggedOutAfterLogin ==
    /\ db.last.op = "logout"
    /\ db.next_token > 1
    /\ db.sessions = {}

\* An iteration of the search that went on without a boundary reset: the
\* loop is left running and p_old is the p the iteration began with.
AvStepped == av.pc = "loop" /\ av'.pc = "loop" /\ av'.p_old = av.p

\* C21: in an iteration that does not return, the step becomes a step of
\* half the magnitude and the opposite sign when delta got worse, else 1.5
\* times the step, and the new step is added to p.
StepHalvedOrGrown ==
    [][AvStepped
       => /\ av'.speed = IF av.delta_old < av'.delta
                         THEN Quot(-av.speed, 2)
                         ELSE av.speed + Quot(av.speed, 2)
          /\ av'.p = av.p + av'.speed]_vars

\* The locals after the body of the iteration that begins in the current
\* state, before its boundary handling.
AvBody == AvIterationOf(Fresh, [av EXCEPT !.iters = av.iters + 1]).av

\* C22: after a step that took p below 0.001 the iteration leaves p in
\* [0.001, 0.002) and the step at 0.000005; after a step that took p above
\* 50 it leaves p in [48, 50) and the step at 0.000005.
BoundaryResetsInRange ==
    [][(av.pc = "loop" /\ av'.pc = "loop")
       => /\ AvBody.p < PMin
             => /\ PMin <= av'.p /\ av'.p < 2 * PMin
                /\ av'.speed = SpeedStart
          /\ AvBody.p > PMax
             => /\ PMax - 2 * PUnit <= av'.p /\ av'.p < PMax
                /\ av'.speed = SpeedStart]_vars

\* C23: the search returns 100 - p without delta < relaxation only when
\* the previous delta was smaller than the current one, p moved by less
\* than 0.001 and the step has the opposite sign of the previous step.
StallReturnNeedsReversal ==
    (av.pc = "done" /\ av.path = "stalled")
    => /\ av.delta_old < av.delta
       /\ Abs(av.p_old - av.p) < StallStep
       /\ \/ av.speed_old < 0 /\ av.speed > 0
          \/ av.speed_old > 0 /\ av.speed < 0

\* C24: every probability the search evaluates the SNR at, and the p every
\* iteration starts with, lies in [0.001, 50], and a returned availability
\* lies in [50, 99.999].
SearchStaysInRange ==
    av.pc # "idle"
    => /\ \A k \in DOMAIN av.evals :
             PMin <= av.evals[k] /\ av.evals[k] <= PMax
       /\ av.pc = "loop" => (PMin <= av.p /\ av.p <= PMax)
       /\ av.pc = "done"
          => /\ 100 * PUnit - PMax <= av.result[1]
             /\ av.result[1] <= FastAvailability

\* C24 witness: an iteration ended with p taken back from above 50, and the
\* search goes on.
SearchResetFromAbove ==
    /\ av.pc = "loop"
    /\ av.p_old = POldReset
    /\ av.p > PMax - 2 * PUnit

\* C25: when get_availability has returned a value, the session's stored
\* availability is the untruncated availability behind that value.
StoredAvailabilityIsResult ==
    av.pc = "done"
    => /\ w.sat.availability # None
       /\ truncate3(Val(w.sat.availability)) = av.result[1]

\* C26: the session refers to a receiver only when it has a ground station,
\* and set_reception on a session without ground station raises the
\* configuration error, leaves the session without receiver and leaves the
\* receiver's frequency and elevation as they were.
ReceiverOnlyAfterStation ==
    [][/\ w'.sat.reception # None => w'.sat.grstation # None
       /\ (last'.op = "set_reception" /\ w.sat.grstation = None)
          => /\ last'.err = ConfigError
             /\ w'.sat.reception = None
             /\ w'.rx.freq = w.rx.freq
             /\ w'.rx.e = w.rx.e]_vars

\* C26 witness: set_reception was called on a session without ground
\* station.
ReceptionRefusedWithoutStation ==
    /\ last.op = "set_reception"
    /\ last.err = ConfigError
    /\ w.sat.grstation = None
    /\ w.sat.reception = None

\* C27: no operation of the manager changes, re-shares or deletes a row
\* owned by a user other than the current user.
OthersRowsUntouched ==
    [][\A r \in db.rows :
          db.current_user_id # Some(r.user_id) => r \in db'.rows]_vars

\* C29: at most one session created through the manager is unexpired in
\* user_sessions, and after logout no token that a login of the manager
\* issued validates.
SingleLiveSession ==
    /\ Cardinality({x \in db.sessions : ~x.expired}) <= 1
    /\ db.last.op = "logout"
       => \A t \in 1..(db.next_token - 1) : validate_session(db, t) = None

\* C28: every handler that reads or writes user-owned data acts with the
\* manager's current user equal to the user_id of the requesting client's
\* session.
HandlersActAsRequester ==
    web.last.op # "" => web.last.as = web.last.own

\* The rows of link_calculations the manager of the request holds.
StoredCalculations == {r \in calc.db.rows : r.table = "link_calculations"}

\* C30: api_calculate_link answers with success and stores a record only
\* when every component was resolved and the results were computed; when
\* a component is missing or the calculation raises, the response is an
\* error and no record is stored.
CalculationStoredOnlyWhenComputed ==
    calc.pc = "done"
    => /\ (calc.success \/ StoredCalculations # {})
          => (calc.resolved /\ calc.results = ComputedResults)
       /\ (~calc.resolved \/ calc.raises)
          => (~calc.success /\ StoredCalculations = {})


=============================================================================
